---- MODULE Spec2Model ----
(***************************************************************************)
(* Model of demos/hive-ui/app.js: the module-tree layout, the aggregation  *)
(* of object dependencies into module-to-module edges, the view history    *)
(* and the object search of the hive-ui graph explorer.                    *)
(*                                                                         *)
(* Conventions                                                             *)
(*  - A JavaScript string is the sequence of its UTF-16 code units, so     *)
(*    that Array.prototype.sort(), template literals, startsWith/slice     *)
(*    and charCodeAt are computed as the code computes them.               *)
(*  - A JavaScript Set whose iteration order reaches the output is a     *)
(*    duplicate-free sequence in insertion order; a JavaScript Map or      *)
(*    plain object used as a dictionary is a sequence of <<key, value>>    *)
(*    pairs in insertion order.  expandedModules and pulseTargets are      *)
(*    plain sets: the program only tests, adds and deletes their members.  *)
(*  - A history entry records in its field shared whether its expansion    *)
(*    list is the very object state.expandedModules refers to; an in-place *)
(*    change of that object changes every entry that holds it.             *)
(*  - null is the one-element sequence Null (no string holds code -1).     *)
(*  - Layout centers are multiples of 1/2; they are kept in half units     *)
(*    (field y2 = 2 * y), which is exact.                                  *)
(*  - camera.zoom is kept in thousandths.                                  *)
(*  - now is performance.now() in milliseconds; the render loop runs a     *)
(*    frame every 160 ms or 320 ms while animating holds.                  *)
(*  - detailsBody is the text of the details panel and the module path it  *)
(*    shows; state.graph = null is the record NoGraph.                     *)
(***************************************************************************)
EXTENDS Integers, Sequences, FiniteSets, TLC

VARIABLES graph, moduleDeps, moduleDepObjects, nodes, expandedModules,
          selectedId, history, historyLocked, positions, edges, edgeMeshes,
          visibleDeps, edgeObjects, visibleCache, listRows,
          camera, zoomTween, panTween, pulseTargets,
          objectRefIndex, searchEntries, objectQuery, objectResults,
          detailsBody, animating, now

vars == <<graph, moduleDeps, moduleDepObjects, nodes, expandedModules,
          selectedId, history, historyLocked, positions, edges, edgeMeshes,
          visibleDeps, edgeObjects, visibleCache, listRows,
          camera, zoomTween, panTween, pulseTargets,
          objectRefIndex, searchEntries, objectQuery, objectResults,
          detailsBody, animating, now>>

----------------------------------------------------------------------------
(* Bounds of the model *)

MaxHistory == 1

MaxStack == 2

\* the render loop is followed for at most MaxFrames frames of 160 ms
MaxFrames == 2

----------------------------------------------------------------------------
(* String literals of the source, as UTF-16 code units *)

Null == <<-1>>

EmptyStr == <<>>

\* "__root__"
ROOT_KEY == <<95, 95, 114, 111, 111, 116, 95, 95>>

\* "module:"
ModulePrefix == <<109, 111, 100, 117, 108, 101, 58>>

\* "->"
Arrow == <<45, 62>>

\* "unknown"
UnknownType == <<117, 110, 107, 110, 111, 119, 110>>

\* " (name="
NameOpen == <<32, 40, 110, 97, 109, 101, 61>>

\* ")"
NameClose == <<41>>

\* " [group="
GroupOpen == <<32, 91, 103, 114, 111, 117, 112, 61>>

\* "]"
GroupClose == <<93>>

DEFAULT_ZOOM == 1200

----------------------------------------------------------------------------
(* JavaScript Set, Map and Array primitives *)

Range(s) == {s[i] : i \in 1..Len(s)}

SetHas(s, x) == \E i \in 1..Len(s) : s[i] = x

SetAdd(s, x) == IF SetHas(s, x) THEN s ELSE Append(s, x)

MapHas(m, k) == \E i \in 1..Len(m) : m[i][1] = k

MapGet(m, k) == m[CHOOSE i \in 1..Len(m) : m[i][1] = k][2]

MapSet(m, k, v) ==
  IF MapHas(m, k)
    THEN [i \in 1..Len(m) |-> IF m[i][1] = k THEN <<k, v>> ELSE m[i]]
    ELSE Append(m, <<k, v>>)

MapKeys(m) == [i \in 1..Len(m) |-> m[i][1]]

RECURSIVE StrLessFrom(_, _, _)
StrLessFrom(a, b, i) ==
  IF i > Len(b) THEN FALSE
  ELSE IF i > Len(a) THEN TRUE
  ELSE IF a[i] < b[i] THEN TRUE
  ELSE IF a[i] > b[i] THEN FALSE
  ELSE StrLessFrom(a, b, i + 1)

\* the default comparison of Array.prototype.sort(): code-unit order
StrLess(a, b) == StrLessFrom(a, b, 1)

RECURSIVE InsertSorted(_, _)
InsertSorted(sorted, x) ==
  IF sorted = <<>> THEN <<x>>
  ELSE IF StrLess(x, Head(sorted)) THEN <<x>> \o sorted
  ELSE <<Head(sorted)>> \o InsertSorted(Tail(sorted), x)

RECURSIVE SortStrings(_)
\* list.sort() on an array of strings (stable)
SortStrings(list) ==
  IF list = <<>> THEN <<>>
  ELSE InsertSorted(SortStrings(SubSeq(list, 1, Len(list) - 1)), list[Len(list)])

RECURSIVE SumSeq(_)
SumSeq(s) == IF s = <<>> THEN 0 ELSE Head(s) + SumSeq(Tail(s))

StartsWith(s, prefix) ==
  /\ Len(s) >= Len(prefix)
  /\ SubSeq(s, 1, Len(prefix)) = prefix

Min(a, b) == IF a < b THEN a ELSE b

Max(a, b) == IF a > b THEN a ELSE b

NodeId(path) == ModulePrefix \o path

----------------------------------------------------------------------------
(* Graph snapshots (graph.json), the immutable input of one session *)

\* module paths "a", "a.b", "a.c", "a.b.d", "a.c.f"
PathA == <<97>>

PathAB == <<97, 46, 98>>

PathAC == <<97, 46, 99>>

PathABD == <<97, 46, 98, 46, 100>>

PathACF == <<97, 46, 99, 46, 102>>

\* module paths "p", "p.q", "r" and the paths "p.zz", "ghost" that name no module
PathP == <<112>>

PathPQ == <<112, 46, 113>>

PathR == <<114>>

PathPZZ == <<112, 46, 122, 122>>

PathGhost == <<103, 104, 111, 115, 116>>

\* module paths "pkg", "pkg.a", "pkg.b"
PathPkg == <<112, 107, 103>>

PathPkgA == <<112, 107, 103, 46, 97>>

PathPkgB == <<112, 107, 103, 46, 98>>

\* node identifiers "c1".."c5" (constructors), "i1" (invoker), "o1".."o5" (objects)
Ctor(n) == <<99, 48 + n>>

Invoker(n) == <<105, 48 + n>>

Obj(n) == <<111, 48 + n>>

\* "d1": a decorator
Decorator(n) == <<100, 48 + n>>

\* type, name and group strings "S", "T", "U", "V", "X"
TypeS == <<83>>

TypeT == <<84>>

TypeU == <<85>>

TypeV == <<86>>

NameX == <<88>>

\* "Service"
TypeService == <<83, 101, 114, 118, 105, 99, 101>>

Module(parent, children) == [parent |-> parent, children |-> children]

Provider(modulePath) == [modulePath |-> modulePath]

Object(type, name, group, modulePath, providedBy, consumedBy) ==
  [type |-> type, name |-> name, group |-> group, modulePath |-> modulePath,
   providedBy |-> providedBy, consumedBy |-> consumedBy]

Edge(from, to, kind) == [from |-> from, to |-> to, kind |-> kind]

\* a well-formed tree: the root a has the children a.c, a.b (listed
\* unsorted), a.b has the child a.b.d and a.c has the child a.c.f
GraphTree ==
  [modules |-> << <<PathAC, Module(PathA, <<PathACF>>)>>,
                  <<PathA, Module(EmptyStr, <<PathAC, PathAB>>)>>,
                  <<PathAB, Module(PathA, <<PathABD>>)>>,
                  <<PathABD, Module(PathAB, <<>>)>>,
                  <<PathACF, Module(PathAC, <<>>)>> >>,
   rootModules |-> <<PathA>>,
   constructors |-> << <<Ctor(1), Provider(PathACF)>>,
                       <<Ctor(2), Provider(PathABD)>>,
                       <<Ctor(3), Provider(PathAB)>>,
                       <<Ctor(5), Provider(PathGhost)>> >>,
   invokers |-> << <<Invoker(1), Provider(PathA)>> >>,
   decorators |-> <<>>,
   objects |-> << <<Obj(1), Object(TypeS, NameX, EmptyStr, PathACF, <<Ctor(1)>>, <<Ctor(2), Ctor(3)>>)>>,
                  <<Obj(2), Object(TypeT, EmptyStr, EmptyStr, PathACF, <<Ctor(1)>>, <<Ctor(3)>>)>>,
                  <<Obj(3), Object(TypeU, EmptyStr, EmptyStr, PathABD, <<Ctor(2)>>, <<Ctor(1)>>)>>,
                  <<Obj(4), Object(TypeV, EmptyStr, NameX, PathAB, <<Ctor(3)>>, <<Ctor(2)>>)>> >>,
   edges |-> << Edge(Obj(2), Ctor(3), "depends"),
                Edge(Obj(1), Ctor(2), "depends"),
                Edge(Obj(1), Ctor(3), "depends"),
                Edge(Obj(3), Ctor(1), "depends"),
                Edge(Obj(4), Ctor(2), "depends"),
                Edge(Obj(4), Ctor(3), "depends"),
                Edge(ModulePrefix \o PathAC, Invoker(1), "invokes"),
                Edge(Obj(3), Ctor(5), "depends"),
                Edge(Obj(2), Ctor(2), "provides") >>]

\* a snapshot under authoring: p lists the child p.zz that has no module
\* entry, and r names the parent ghost that has no module entry
GraphDangling ==
  [modules |-> << <<PathP, Module(EmptyStr, <<PathPZZ, PathPQ>>)>>,
                  <<PathPQ, Module(PathP, <<>>)>>,
                  <<PathR, Module(PathGhost, <<>>)>> >>,
   rootModules |-> <<PathP, PathR>>,
   constructors |-> << <<Ctor(1), Provider(PathPQ)>>,
                       <<Ctor(2), Provider(PathR)>>,
                       <<Ctor(3), Provider(PathPZZ)>> >>,
   invokers |-> <<>>,
   decorators |-> <<>>,
   objects |-> << <<Obj(1), Object(TypeS, NameX, EmptyStr, PathPQ, <<Ctor(1)>>, <<Ctor(2)>>)>>,
                  <<Obj(2), Object(TypeT, EmptyStr, EmptyStr, PathPZZ, <<Ctor(3)>>, <<Ctor(2)>>)>> >>,
   edges |-> << Edge(Obj(1), Ctor(2), "depends"),
                Edge(Obj(2), Ctor(2), "depends") >>]

\* the root module pkg with the leaves pkg.a and pkg.b; the object
\* Service{name: "X"} is provided by a constructor of pkg.a and consumed by a
\* constructor of pkg.b
GraphPkg ==
  [modules |-> << <<PathPkg, Module(EmptyStr, <<PathPkgA, PathPkgB>>)>>,
                  <<PathPkgA, Module(PathPkg, <<>>)>>,
                  <<PathPkgB, Module(PathPkg, <<>>)>> >>,
   rootModules |-> <<PathPkg>>,
   constructors |-> << <<Ctor(1), Provider(PathPkgA)>>,
                       <<Ctor(2), Provider(PathPkgB)>> >>,
   invokers |-> <<>>,
   decorators |-> <<>>,
   objects |-> << <<Obj(1), Object(TypeService, NameX, EmptyStr, PathPkgA, <<Ctor(1)>>, <<Ctor(2)>>)>> >>,
   edges |-> << Edge(Obj(1), Ctor(2), "depends"),
                Edge(Ctor(1), Obj(1), "provides") >>]

\* objects for the index: two of one signature, the second provided by a
\* constructor of a.b and a decorator of a.c; one provided by the constructor
\* of the unknown module ghost; one provided by two constructors of a.c.f;
\* one provided by an invoker only
ObjectPool ==
  << <<Obj(1), Object(TypeS, NameX, EmptyStr, PathACF, <<Ctor(1)>>, <<>>)>>,
     <<Obj(2), Object(TypeS, NameX, EmptyStr, PathAB, <<Ctor(3), Decorator(1)>>, <<>>)>>,
     <<Obj(3), Object(TypeT, EmptyStr, EmptyStr, PathGhost, <<Ctor(5)>>, <<>>)>>,
     <<Obj(4), Object(TypeV, EmptyStr, NameX, PathACF, <<Ctor(1), Ctor(4)>>, <<>>)>>,
     <<Obj(5), Object(TypeU, EmptyStr, EmptyStr, PathA, <<Invoker(1)>>, <<>>)>> >>

\* the tree snapshot with a second constructor in a.c.f, a decorator in a.c
\* and any selection of the pool as its objects, in the order of the pool
IndexSnapshots ==
  {[GraphTree EXCEPT
      !.constructors = Append(@, <<Ctor(4), Provider(PathACF)>>),
      !.decorators = << <<Decorator(1), Provider(PathAC)>> >>,
      !.objects = SelectSeq(ObjectPool, LAMBDA o : o[1] \in chosen)] :
     chosen \in SUBSET {ObjectPool[i][1] : i \in 1..Len(ObjectPool)}}

\* seventeen root modules "ma".."mq", a constructor "ca".."cq" in each, and
\* three objects "T", "T (name=X)", "T [group=X]" that every constructor
\* provides: 51 search entries
GraphWide ==
  [modules |-> [i \in 1..17 |-> << <<109, 96 + i>>, Module(EmptyStr, <<>>) >>],
   rootModules |-> [i \in 1..17 |-> <<109, 96 + i>>],
   constructors |-> [i \in 1..17 |-> << <<99, 96 + i>>, Provider(<<109, 96 + i>>) >>],
   invokers |-> <<>>,
   decorators |-> <<>>,
   objects |-> << <<Obj(1), Object(TypeT, EmptyStr, EmptyStr, <<109, 97>>,
                                   [i \in 1..17 |-> <<99, 96 + i>>], <<>>)>>,
                  <<Obj(2), Object(TypeT, NameX, EmptyStr, <<109, 97>>,
                                   [i \in 1..17 |-> <<99, 96 + i>>], <<>>)>>,
                  <<Obj(3), Object(TypeT, EmptyStr, NameX, <<109, 97>>,
                                   [i \in 1..17 |-> <<99, 96 + i>>], <<>>)>> >>,
   edges |-> <<>>]

\* the tree snapshot with exported marks: constructors and decorators with
\* and without a mark, objects with and without an explicit flag
GraphFlags ==
  [GraphTree EXCEPT
     !.constructors =
        << <<Ctor(1), Provider(PathACF)>>,
           <<Ctor(2), [modulePath |-> PathABD, exported |-> TRUE]>>,
           <<Ctor(3), [modulePath |-> PathAB, Exported |-> TRUE]>>,
           <<Ctor(4), [modulePath |-> PathAC, exported |-> FALSE]>> >>,
     !.decorators =
        << <<Decorator(1), [modulePath |-> PathAC, exported |-> TRUE]>>,
           <<Decorator(2), Provider(PathAB)>> >>,
     !.objects =
        << <<Obj(1), (Object(TypeS, EmptyStr, EmptyStr, PathACF, <<Ctor(1)>>, <<>>)
                        @@ [exported |-> TRUE])>>,
           <<Obj(2), (Object(TypeT, EmptyStr, EmptyStr, PathABD, <<Ctor(2)>>, <<>>)
                        @@ [exported |-> FALSE])>>,
           <<Obj(3), (Object(TypeU, EmptyStr, EmptyStr, PathA, <<>>, <<>>)
                        @@ [Exported |-> FALSE])>>,
           <<Obj(4), Object(TypeV, EmptyStr, EmptyStr, PathACF, <<Ctor(1)>>, <<>>)>>,
           <<Obj(5), Object(TypeS, NameX, EmptyStr, PathACF, <<Ctor(1), Ctor(2)>>, <<>>)>>,
           <<Obj(6), Object(TypeT, NameX, EmptyStr, PathAB, <<Decorator(2)>>, <<>>)>>,
           <<Obj(7), Object(TypeU, NameX, EmptyStr, PathA, <<>>, <<>>)>>,
           <<Obj(8), Object(TypeV, NameX, EmptyStr, PathAC, <<Ctor(1), Decorator(1)>>, <<>>)>>,
           <<Obj(9), Object(TypeS, EmptyStr, NameX, PathAC, <<Ctor(4)>>, <<>>)>>,
           <<Obj(10), Object(TypeT, EmptyStr, NameX, PathAB, <<Ctor(1), Ctor(3)>>, <<>>)>> >>,
     !.edges = <<>>]

\* a root p with the child p.q: the constructor c2 of p.q consumes the
\* object o1 that the constructor c1 of p provides
GraphPair ==
  [modules |-> << <<PathP, Module(EmptyStr, <<PathPQ>>)>>,
                  <<PathPQ, Module(PathP, <<>>)>> >>,
   rootModules |-> <<PathP>>,
   constructors |-> << <<Ctor(1), Provider(PathP)>>, <<Ctor(2), Provider(PathPQ)>> >>,
   invokers |-> <<>>,
   decorators |-> <<>>,
   objects |-> << <<Obj(1), Object(TypeS, EmptyStr, EmptyStr, PathP, <<Ctor(1)>>, <<Ctor(2)>>)>> >>,
   edges |-> << Edge(Obj(1), Ctor(2), "depends") >>]

\* state.graph before a snapshot is assigned: null, which has none of the
\* fields of a snapshot; the handlers that read a field of it throw
NoGraph ==
  [modules |-> <<>>, rootModules |-> <<>>, constructors |-> <<>>, invokers |-> <<>>,
   decorators |-> <<>>, objects |-> <<>>, edges |-> <<>>, isNull |-> TRUE]

Snapshots == {GraphTree, GraphDangling}

\* the snapshots the rebuild is computed on
Inputs == Snapshots \cup {GraphPkg}

----------------------------------------------------------------------------
(* Load-time pre-pass *)

\* formatObject without the name and the group
formatTypeOnly(obj) ==
  IF obj.type # EmptyStr THEN obj.type ELSE UnknownType

formatObject(obj) ==
  (IF obj.type # EmptyStr THEN obj.type ELSE UnknownType)
    \o (IF obj.name # EmptyStr THEN NameOpen \o obj.name \o NameClose ELSE EmptyStr)
    \o (IF obj.group # EmptyStr THEN GroupOpen \o obj.group \o GroupClose ELSE EmptyStr)

moduleForNodeId(g, id) ==
  IF id = EmptyStr THEN EmptyStr
  ELSE IF StartsWith(id, ModulePrefix) THEN SubSeq(id, Len(ModulePrefix) + 1, Len(id))
  ELSE IF MapHas(g.constructors, id) THEN MapGet(g.constructors, id).modulePath
  ELSE IF MapHas(g.invokers, id) THEN MapGet(g.invokers, id).modulePath
  ELSE IF MapHas(g.decorators, id) THEN MapGet(g.decorators, id).modulePath
  ELSE IF MapHas(g.objects, id) THEN MapGet(g.objects, id).modulePath
  ELSE EmptyStr

\* recordEdge without the test fromModule === toModule
recordSameModule(g, acc, edge) ==
  LET fromModule == moduleForNodeId(g, edge.from)
      toModule == moduleForNodeId(g, edge.to)
  IN IF edge.kind # "depends" /\ edge.kind # "invokes" THEN acc
     ELSE IF fromModule = EmptyStr \/ toModule = EmptyStr THEN acc
     ELSE IF ~MapHas(g.modules, fromModule) \/ ~MapHas(g.modules, toModule) THEN acc
     ELSE
       LET deps == MapSet(acc.moduleDeps, toModule,
                          SetAdd(MapGet(acc.moduleDeps, toModule), fromModule))
           withConsumer == IF MapHas(acc.moduleDepObjects, toModule)
                             THEN acc.moduleDepObjects
                             ELSE MapSet(acc.moduleDepObjects, toModule, <<>>)
           providerMap == MapGet(withConsumer, toModule)
           withProvider == IF MapHas(providerMap, fromModule)
                             THEN providerMap
                             ELSE MapSet(providerMap, fromModule, <<>>)
           labels == MapGet(withProvider, fromModule)
           newLabels == IF MapHas(g.objects, edge.from)
                          THEN SetAdd(labels, formatObject(MapGet(g.objects, edge.from)))
                          ELSE labels
       IN [moduleDeps |-> deps,
           moduleDepObjects |->
             MapSet(withConsumer, toModule, MapSet(withProvider, fromModule, newLabels))]

\* the body of the edges.forEach callback of buildModuleDeps: acc holds
\* moduleDeps and moduleDepObjects
recordEdge(g, acc, edge) ==
  LET fromModule == moduleForNodeId(g, edge.from)
      toModule == moduleForNodeId(g, edge.to)
  IN IF edge.kind # "depends" /\ edge.kind # "invokes" THEN acc
     ELSE IF fromModule = EmptyStr \/ toModule = EmptyStr \/ fromModule = toModule THEN acc
     ELSE IF ~MapHas(g.modules, fromModule) \/ ~MapHas(g.modules, toModule) THEN acc
     ELSE
       LET deps == MapSet(acc.moduleDeps, toModule,
                          SetAdd(MapGet(acc.moduleDeps, toModule), fromModule))
           withConsumer == IF MapHas(acc.moduleDepObjects, toModule)
                             THEN acc.moduleDepObjects
                             ELSE MapSet(acc.moduleDepObjects, toModule, <<>>)
           providerMap == MapGet(withConsumer, toModule)
           withProvider == IF MapHas(providerMap, fromModule)
                             THEN providerMap
                             ELSE MapSet(providerMap, fromModule, <<>>)
           labels == MapGet(withProvider, fromModule)
           newLabels == IF MapHas(g.objects, edge.from)
                          THEN SetAdd(labels, formatObject(MapGet(g.objects, edge.from)))
                          ELSE labels
       IN [moduleDeps |-> deps,
           moduleDepObjects |->
             MapSet(withConsumer, toModule, MapSet(withProvider, fromModule, newLabels))]

RECURSIVE recordEdges(_, _, _)
recordEdges(g, acc, i) ==
  IF i > Len(g.edges) THEN acc
  ELSE recordEdges(g, recordEdge(g, acc, g.edges[i]), i + 1)

\* buildModuleDeps that keeps the adjacency and no per-object labels
buildModuleDepsUnlabelled(g) ==
  [moduleDeps |-> recordEdges(g,
                    [moduleDeps |-> [i \in 1..Len(g.modules) |-> <<g.modules[i][1], <<>> >>],
                     moduleDepObjects |-> <<>>],
                    1).moduleDeps,
   moduleDepObjects |-> <<>>]

buildModuleDeps(g) ==
  recordEdges(g,
              [moduleDeps |-> [i \in 1..Len(g.modules) |-> <<g.modules[i][1], <<>> >>],
               moduleDepObjects |-> <<>>],
              1)

\* Object.keys(modules) sorted, as buildNodes stores it
moduleOrder(g) == SortStrings(MapKeys(g.modules))

\* state.nodes after buildNodes: the root sprite and one sprite per module;
\* a new THREE.Sprite is visible
buildNodes(g) ==
  [id \in {NodeId(ROOT_KEY)} \cup {NodeId(p) : p \in Range(MapKeys(g.modules))} |->
     [modulePath |-> SubSeq(id, Len(ModulePrefix) + 1, Len(id)), visible |-> TRUE]]

----------------------------------------------------------------------------
(* Object index and search *)

\* String.prototype.toLowerCase on the letters A-Z
toLowerCase(s) == [i \in 1..Len(s) |-> IF s[i] >= 65 /\ s[i] <= 90 THEN s[i] + 32 ELSE s[i]]

\* String.prototype.trim: tab, line feed, vertical tab, form feed, carriage
\* return and space are the white space of the inputs
trim(s) ==
  LET inner == {i \in 1..Len(s) : s[i] \notin {9, 10, 11, 12, 13, 32}}
  IN IF inner = {} THEN EmptyStr
     ELSE SubSeq(s, CHOOSE i \in inner : \A j \in inner : i <= j,
                    CHOOSE i \in inner : \A j \in inner : i >= j)

\* String.prototype.includes
includes(s, q) ==
  \E i \in 1..(Len(s) - Len(q) + 1) : SubSeq(s, i, i + Len(q) - 1) = q

\* a.localeCompare(b) in the root collation, for the characters of the
\* snapshots: white space and punctuation sort before digits, digits before
\* letters; letters compare without case first, and a lower-case letter
\* sorts before its capital where the strings are otherwise equal
localeCompare(a, b) ==
  LET weight(c) == CASE c = 32 -> 1
                     [] c = 46 -> 2
                     [] c = 40 -> 3
                     [] c = 41 -> 4
                     [] c = 91 -> 5
                     [] c = 93 -> 6
                     [] c = 61 -> 7
                     [] c = 124 -> 8
                     [] c >= 48 /\ c <= 57 -> c - 38
                     [] c >= 65 /\ c <= 90 -> c - 45
                     [] c >= 97 /\ c <= 122 -> c - 77
                     [] OTHER -> c + 100
      common == 1..Min(Len(a), Len(b))
      first(set) == CHOOSE i \in set : \A j \in set : i <= j
      primary == {i \in common : weight(a[i]) # weight(b[i])}
      tertiary == {i \in common : a[i] # b[i]}
  IN IF primary # {}
       THEN (IF weight(a[first(primary)]) < weight(b[first(primary)]) THEN -1 ELSE 1)
     ELSE IF Len(a) < Len(b) THEN -1
     ELSE IF Len(a) > Len(b) THEN 1
     ELSE IF tertiary # {}
       THEN (IF a[first(tertiary)] > b[first(tertiary)] THEN -1 ELSE 1)
     ELSE 0

\* `${type || ""}|${name || ""}|${group || ""}`
objectSignature(type, name, group) == type \o <<124>> \o name \o <<124>> \o group

\* providerModulesForObject without the test that the module is known
providersUnchecked(g, obj) ==
  LET found[k \in 0..Len(obj.providedBy)] ==
        IF k = 0 THEN <<>>
        ELSE LET providerId == obj.providedBy[k]
                 modulePath ==
                   IF MapHas(g.constructors, providerId)
                     THEN MapGet(g.constructors, providerId).modulePath
                   ELSE IF MapHas(g.decorators, providerId)
                     THEN MapGet(g.decorators, providerId).modulePath
                   ELSE EmptyStr
             IN IF modulePath # EmptyStr
                  THEN SetAdd(found[k - 1], modulePath)
                  ELSE found[k - 1]
  IN SortStrings(found[Len(obj.providedBy)])

providerModulesForObject(g, obj) ==
  LET found[k \in 0..Len(obj.providedBy)] ==
        IF k = 0 THEN <<>>
        ELSE LET providerId == obj.providedBy[k]
                 modulePath ==
                   IF MapHas(g.constructors, providerId)
                     THEN MapGet(g.constructors, providerId).modulePath
                   ELSE IF MapHas(g.decorators, providerId)
                     THEN MapGet(g.decorators, providerId).modulePath
                   ELSE EmptyStr
             IN IF modulePath # EmptyStr /\ MapHas(g.modules, modulePath)
                  THEN SetAdd(found[k - 1], modulePath)
                  ELSE found[k - 1]
  IN SortStrings(found[Len(obj.providedBy)])

\* the exported marks of the snapshots are booleans: typeof x.exported ===
\* "boolean" holds exactly when the record has the field
isPrivateObject(g, obj) ==
  LET ctors == {k \in 1..Len(obj.providedBy) : MapHas(g.constructors, obj.providedBy[k])}
      ctor(k) == MapGet(g.constructors, obj.providedBy[k])
      hasCtor == ctors # {}
      hasExported == \E k \in ctors :
                       \/ "exported" \in DOMAIN ctor(k) /\ ctor(k).exported
                       \/ "Exported" \in DOMAIN ctor(k) /\ ctor(k).Exported
  IN IF "exported" \in DOMAIN obj THEN ~obj.exported
     ELSE IF "Exported" \in DOMAIN obj THEN ~obj.Exported
     ELSE IF Len(obj.providedBy) = 0 THEN FALSE
     ELSE hasCtor /\ ~hasExported

\* the sort with the keys exchanged: by module path, then by label
sortByModulePath(unsorted) ==
  LET compare(x, y) == IF localeCompare(x.modulePath, y.modulePath) # 0
                         THEN localeCompare(x.modulePath, y.modulePath)
                         ELSE localeCompare(x.label, y.label)
      rank(i) == Cardinality({j \in 1..Len(unsorted) :
                                \/ compare(unsorted[j], unsorted[i]) < 0
                                \/ compare(unsorted[j], unsorted[i]) = 0 /\ j < i})
  IN [k \in 1..Len(unsorted) |-> unsorted[CHOOSE i \in 1..Len(unsorted) : rank(i) = k - 1]]

\* state.searchEntries.sort(...): by label, then by module path;
\* Array.prototype.sort is stable
sortEntries(unsorted) ==
  LET compare(x, y) == IF localeCompare(x.label, y.label) # 0
                         THEN localeCompare(x.label, y.label)
                         ELSE localeCompare(x.modulePath, y.modulePath)
      rank(i) == Cardinality({j \in 1..Len(unsorted) :
                                \/ compare(unsorted[j], unsorted[i]) < 0
                                \/ compare(unsorted[j], unsorted[i]) = 0 /\ j < i})
  IN [k \in 1..Len(unsorted) |-> unsorted[CHOOSE i \in 1..Len(unsorted) : rank(i) = k - 1]]

\* state.objectRefIndex and state.searchEntries after buildObjectIndex
buildObjectIndex(g) ==
  LET entryOf(i) ==
        [id |-> g.objects[i][1],
         type |-> g.objects[i][2].type,
         name |-> g.objects[i][2].name,
         group |-> g.objects[i][2].group,
         label |-> formatObject(g.objects[i][2]),
         providers |-> providerModulesForObject(g, g.objects[i][2]),
         isPrivate |-> isPrivateObject(g, g.objects[i][2])]
      signatureOf(e) == objectSignature(e.type, e.name, e.group)
      indexed == SelectSeq([i \in 1..Len(g.objects) |-> entryOf(i)],
                           LAMBDA e : Len(e.providers) > 0)
      refs[k \in 0..Len(indexed)] ==
        IF k = 0 THEN <<>>
        ELSE MapSet(refs[k - 1], signatureOf(indexed[k]),
                    Append(IF MapHas(refs[k - 1], signatureOf(indexed[k]))
                             THEN MapGet(refs[k - 1], signatureOf(indexed[k]))
                             ELSE <<>>,
                           indexed[k]))
      pushed[k \in 0..Len(indexed)] ==
        IF k = 0 THEN <<>>
        ELSE pushed[k - 1]
               \o [j \in 1..Len(indexed[k].providers) |->
                     [label |-> indexed[k].label,
                      modulePath |-> indexed[k].providers[j],
                      signature |-> signatureOf(indexed[k]),
                      searchKey |-> toLowerCase(indexed[k].label),
                      isPrivate |-> indexed[k].isPrivate]]
  IN [objectRefIndex |-> refs[Len(indexed)],
      searchEntries |-> sortEntries(pushed[Len(indexed)])]

\* renderSearchResults comparing the query as typed, not lower-cased
renderCaseSensitive(st, query) ==
  LET q == trim(query)
      matches == SelectSeq(st.searchEntries, LAMBDA entry : includes(entry.searchKey, q))
  IN IF st.thrown THEN st
     ELSE IF q = EmptyStr
       THEN [st EXCEPT !.objectResults = [message |-> "Type to search for objects.",
                                          rows |-> <<>>, more |-> <<>>]]
     ELSE IF Len(matches) = 0
       THEN [st EXCEPT !.objectResults = [message |-> "No matches.",
                                          rows |-> <<>>, more |-> <<>>]]
     ELSE [st EXCEPT !.objectResults =
             [message |-> "",
              rows |-> [k \in 1..Min(50, Len(matches)) |->
                          [label |-> matches[k].label, modulePath |-> matches[k].modulePath,
                           isPrivate |-> matches[k].isPrivate]],
              more |-> IF Len(matches) > 50 THEN << Len(matches) >> ELSE <<>>]]

\* the content of the result list: a message, or the rows of the first 50
\* matches and, beyond 50 matches, the note with their number
renderSearchResults(st, query) ==
  LET q == toLowerCase(trim(query))
      matches == SelectSeq(st.searchEntries, LAMBDA entry : includes(entry.searchKey, q))
  IN IF st.thrown THEN st
     ELSE IF q = EmptyStr
       THEN [st EXCEPT !.objectResults = [message |-> "Type to search for objects.",
                                          rows |-> <<>>, more |-> <<>>]]
     ELSE IF Len(matches) = 0
       THEN [st EXCEPT !.objectResults = [message |-> "No matches.",
                                          rows |-> <<>>, more |-> <<>>]]
     ELSE [st EXCEPT !.objectResults =
             [message |-> "",
              rows |-> [k \in 1..Min(50, Len(matches)) |->
                          [label |-> matches[k].label, modulePath |-> matches[k].modulePath,
                           isPrivate |-> matches[k].isPrivate]],
              more |-> IF Len(matches) > 50 THEN << Len(matches) >> ELSE <<>>]]

\* setupObjectSearch: the first rendering, of the empty query
setupObjectSearch(st) == renderSearchResults(st, EmptyStr)

----------------------------------------------------------------------------
(* Tree layout *)

\* state.graph.modules[path]?.parent || ""
parentOf(g, path) ==
  IF MapHas(g.modules, path) THEN MapGet(g.modules, path).parent ELSE EmptyStr

\* (state.graph.modules[path]?.children || []).slice() followed by sort()
sortedChildren(g, path) ==
  IF MapHas(g.modules, path) THEN SortStrings(MapGet(g.modules, path).children) ELSE <<>>

layoutRoots(g) ==
  SortStrings(SelectSeq(moduleOrder(g),
                        LAMBDA path : parentOf(g, path) = EmptyStr
                                        \/ ~MapHas(g.modules, parentOf(g, path))))

\* countVisible counting the children of the module only
countShallow(g, expanded, modulePath) ==
  IF modulePath \notin expanded THEN 1 ELSE 1 + Len(sortedChildren(g, modulePath))

RECURSIVE countVisible(_, _, _)
RECURSIVE countChildren(_, _, _)
\* children.map((child) => countVisible(child))
countChildren(g, expanded, children) ==
  [i \in 1..Len(children) |-> countVisible(g, expanded, children[i])]

countVisible(g, expanded, modulePath) ==
  IF modulePath \notin expanded THEN 1
  ELSE 1 + SumSeq(countChildren(g, expanded, sortedChildren(g, modulePath)))

RECURSIVE place(_, _, _, _, _, _)
RECURSIVE placeChildren(_, _, _, _, _, _, _, _, _)
\* placeChildren advancing the cursor by half the size of the child
placeChildrenHalf(g, expanded, layout, modulePath, depth, children, sizes, idx, cursor2) ==
  IF idx > Len(children) THEN layout
  ELSE placeChildren(g, expanded,
                     place(g, expanded,
                           [positions |-> layout.positions,
                            edges |-> Append(layout.edges, <<modulePath, children[idx]>>)],
                           children[idx], depth + 1, cursor2 + sizes[idx]),
                     modulePath, depth, children, sizes, idx + 1,
                     cursor2 + sizes[idx])

\* the children.forEach loop of place, from index idx on; cursor2 is the
\* cursor in half units, so that the child center cursor + childSize / 2 is
\* cursor2 + childSize
placeChildren(g, expanded, layout, modulePath, depth, children, sizes, idx, cursor2) ==
  IF idx > Len(children) THEN layout
  ELSE placeChildren(g, expanded,
                     place(g, expanded,
                           [positions |-> layout.positions,
                            edges |-> Append(layout.edges, <<modulePath, children[idx]>>)],
                           children[idx], depth + 1, cursor2 + sizes[idx]),
                     modulePath, depth, children, sizes, idx + 1,
                     cursor2 + 2 * sizes[idx])

\* placeExpanded starting the cursor at the center of the parent
placeBelow(g, expanded, placed, modulePath, depth, centerY2, children, sizes) ==
  placeChildren(g, expanded, placed, modulePath, depth, children, sizes, 1, centerY2)

\* place after positions.set, for an expanded module: sizes, total and the
\* first cursor centerY - total / 2
placeExpanded(g, expanded, placed, modulePath, depth, centerY2, children, sizes) ==
  placeChildren(g, expanded, placed, modulePath, depth, children, sizes, 1,
                centerY2 - SumSeq(sizes))

placeSorted(g, expanded, placed, modulePath, depth, centerY2, children) ==
  placeExpanded(g, expanded, placed, modulePath, depth, centerY2, children,
                countChildren(g, expanded, children))

\* place descending into the children of a collapsed module too
placeAlways(g, expanded, layout, modulePath, depth, centerY2) ==
  placeSorted(g, expanded,
              [positions |-> MapSet(layout.positions, modulePath,
                                    [x |-> depth, y2 |-> centerY2]),
               edges |-> layout.edges],
              modulePath, depth, centerY2, sortedChildren(g, modulePath))

place(g, expanded, layout, modulePath, depth, centerY2) ==
  IF modulePath \notin expanded
    THEN [positions |-> MapSet(layout.positions, modulePath, [x |-> depth, y2 |-> centerY2]),
          edges |-> layout.edges]
    ELSE placeSorted(g, expanded,
                     [positions |-> MapSet(layout.positions, modulePath,
                                           [x |-> depth, y2 |-> centerY2]),
                      edges |-> layout.edges],
                     modulePath, depth, centerY2, sortedChildren(g, modulePath))

RECURSIVE placeRootsUnlinked(_, _, _, _, _, _, _)
\* the roots.forEach loop without edges.push([ROOT_KEY, root])
placeRootsUnlinked(g, expanded, layout, roots, rootSizes, idx, cursor2) ==
  IF idx > Len(roots) THEN layout
  ELSE placeRootsUnlinked(g, expanded,
                          place(g, expanded, layout, roots[idx], 1, cursor2 + rootSizes[idx]),
                          roots, rootSizes, idx + 1, cursor2 + 2 * rootSizes[idx])

RECURSIVE placeRoots(_, _, _, _, _, _, _)
\* the roots.forEach loop of layoutTree
placeRoots(g, expanded, layout, roots, rootSizes, idx, cursor2) ==
  IF idx > Len(roots) THEN layout
  ELSE placeRoots(g, expanded,
                  place(g, expanded,
                        [positions |-> layout.positions,
                         edges |-> Append(layout.edges, <<ROOT_KEY, roots[idx]>>)],
                        roots[idx], 1, cursor2 + rootSizes[idx]),
                  roots, rootSizes, idx + 1, cursor2 + 2 * rootSizes[idx])

\* layoutTree once roots and rootSizes are known
layoutFrom(g, expanded, roots, rootSizes) ==
  placeRoots(g, expanded,
             [positions |-> << <<ROOT_KEY, [x |-> 0, y2 |-> 0]>> >>, edges |-> <<>>],
             roots, rootSizes, 1, -SumSeq(rootSizes))

layoutSized(g, expanded, roots) ==
  layoutFrom(g, expanded, roots, countChildren(g, expanded, roots))

layoutTree(g, expanded) == layoutSized(g, expanded, layoutRoots(g))

----------------------------------------------------------------------------
(* Dependency aggregation *)

\* walkVisible that looks at the module and its parent only
walkToParent(g, nodeMap, current) ==
  IF NodeId(current) \in DOMAIN nodeMap /\ nodeMap[NodeId(current)].visible THEN current
  ELSE IF parentOf(g, current) = EmptyStr \/ parentOf(g, current) = current THEN ROOT_KEY
  ELSE parentOf(g, current)

\* the while loop of resolveVisible, from the module current on
RECURSIVE walkVisible(_, _, _)
walkVisible(g, nodeMap, current) ==
  IF NodeId(current) \in DOMAIN nodeMap /\ nodeMap[NodeId(current)].visible THEN current
  ELSE IF parentOf(g, current) = EmptyStr \/ parentOf(g, current) = current THEN ROOT_KEY
  ELSE walkVisible(g, nodeMap, parentOf(g, current))

\* visibleCache.set(modulePath, found); return found
remember(cache, modulePath, found) ==
  [value |-> found, cache |-> MapSet(cache, modulePath, found)]

\* resolveVisible starting the walk at the parent of the module
resolveAbove(g, nodeMap, cache, modulePath) ==
  IF modulePath = EmptyStr \/ modulePath = ROOT_KEY
    THEN [value |-> ROOT_KEY, cache |-> cache]
  ELSE IF MapHas(cache, modulePath)
    THEN [value |-> MapGet(cache, modulePath), cache |-> cache]
  ELSE remember(cache, modulePath, walkVisible(g, nodeMap, parentOf(g, modulePath)))

\* resolveVisible with its memo: the stand-in and the visibleCache after the call
resolveVisible(g, nodeMap, cache, modulePath) ==
  IF modulePath = EmptyStr \/ modulePath = ROOT_KEY
    THEN [value |-> ROOT_KEY, cache |-> cache]
  ELSE IF MapHas(cache, modulePath)
    THEN [value |-> MapGet(cache, modulePath), cache |-> cache]
  ELSE remember(cache, modulePath, walkVisible(g, nodeMap, modulePath))

\* addLabels overwriting the labels of the edge with those of the last pair
replaceLabels(set, labels, i) == labels

RECURSIVE addLabels(_, _, _)
\* objects.forEach((label) => set.add(label))
addLabels(set, labels, i) ==
  IF i > Len(labels) THEN set ELSE addLabels(SetAdd(set, labels[i]), labels, i + 1)

\* map.get(key), or the empty collection the code creates when the key is new
getOrEmpty(map, key) == IF MapHas(map, key) THEN MapGet(map, key) ELSE <<>>

\* addVisibleEdge with visibleDeps holding arrays instead of sets
addVisibleEdgeArray(acc, fromVisible, objects, r) ==
  IF r.value = EmptyStr \/ r.value = ROOT_KEY \/ r.value = fromVisible
    THEN [deps |-> acc.deps, objectsByEdge |-> acc.objectsByEdge, cache |-> r.cache]
    ELSE [deps |-> MapSet(acc.deps, fromVisible,
                          Append(getOrEmpty(acc.deps, fromVisible), r.value)),
          objectsByEdge |->
            MapSet(acc.objectsByEdge, fromVisible \o Arrow \o r.value,
                   addLabels(getOrEmpty(acc.objectsByEdge, fromVisible \o Arrow \o r.value),
                             objects, 1)),
          cache |-> r.cache]

\* the providers.forEach callback of the per-layout pass once the provider
\* is resolved to r
addVisibleEdge(acc, fromVisible, objects, r) ==
  IF r.value = EmptyStr \/ r.value = ROOT_KEY \/ r.value = fromVisible
    THEN [deps |-> acc.deps, objectsByEdge |-> acc.objectsByEdge, cache |-> r.cache]
    ELSE [deps |-> MapSet(acc.deps, fromVisible,
                          SetAdd(getOrEmpty(acc.deps, fromVisible), r.value)),
          objectsByEdge |->
            MapSet(acc.objectsByEdge, fromVisible \o Arrow \o r.value,
                   addLabels(getOrEmpty(acc.objectsByEdge, fromVisible \o Arrow \o r.value),
                             objects, 1)),
          cache |-> r.cache]

aggregatePair(g, nodeMap, acc, fromVisible, provider, objects) ==
  addVisibleEdge(acc, fromVisible, objects, resolveVisible(g, nodeMap, acc.cache, provider))

RECURSIVE aggregateProviders(_, _, _, _, _, _)
aggregateProviders(g, nodeMap, acc, fromVisible, providers, j) ==
  IF j > Len(providers) THEN acc
  ELSE aggregateProviders(g, nodeMap,
                          aggregatePair(g, nodeMap, acc, fromVisible,
                                        providers[j][1], providers[j][2]),
                          fromVisible, providers, j + 1)

\* the moduleDepObjects.forEach callback once the consumer is resolved to r
aggregateConsumer(g, nodeMap, acc, providers, r) ==
  IF r.value = EmptyStr \/ r.value = ROOT_KEY
    THEN [deps |-> acc.deps, objectsByEdge |-> acc.objectsByEdge, cache |-> r.cache]
    ELSE aggregateProviders(g, nodeMap,
                            [deps |-> acc.deps, objectsByEdge |-> acc.objectsByEdge,
                             cache |-> r.cache],
                            r.value, providers, 1)

RECURSIVE aggregateConsumers(_, _, _, _, _)
\* state.moduleDepObjects.forEach((providers, consumer) => ...)
aggregateConsumers(g, nodeMap, depObjects, acc, i) ==
  IF i > Len(depObjects) THEN acc
  ELSE aggregateConsumers(g, nodeMap, depObjects,
         aggregateConsumer(g, nodeMap, acc, depObjects[i][2],
                           resolveVisible(g, nodeMap, acc.cache, depObjects[i][1])),
         i + 1)

\* the deps.forEach callback of the fallback pass once dep is resolved to r
addFallbackEdge(acc, fromVisible, r) ==
  IF r.value = EmptyStr \/ r.value = ROOT_KEY \/ r.value = fromVisible
    THEN [deps |-> acc.deps, objectsByEdge |-> acc.objectsByEdge, cache |-> r.cache]
    ELSE [deps |-> MapSet(acc.deps, fromVisible,
                          SetAdd(getOrEmpty(acc.deps, fromVisible), r.value)),
          objectsByEdge |-> acc.objectsByEdge,
          cache |-> r.cache]

RECURSIVE fallbackDeps(_, _, _, _, _, _)
fallbackDeps(g, nodeMap, acc, fromVisible, deps, j) ==
  IF j > Len(deps) THEN acc
  ELSE fallbackDeps(g, nodeMap,
                    addFallbackEdge(acc, fromVisible,
                                    resolveVisible(g, nodeMap, acc.cache, deps[j])),
                    fromVisible, deps, j + 1)

\* the moduleDeps.forEach callback once the module is resolved to r
fallbackModule(g, nodeMap, acc, deps, r) ==
  IF r.value = EmptyStr \/ r.value = ROOT_KEY
    THEN [deps |-> acc.deps, objectsByEdge |-> acc.objectsByEdge, cache |-> r.cache]
    ELSE fallbackDeps(g, nodeMap,
                      [deps |-> acc.deps, objectsByEdge |-> acc.objectsByEdge,
                       cache |-> r.cache],
                      r.value, deps, 1)

RECURSIVE fallbackModules(_, _, _, _, _)
\* state.moduleDeps.forEach((deps, modulePath) => ...)
fallbackModules(g, nodeMap, deps, acc, i) ==
  IF i > Len(deps) THEN acc
  ELSE fallbackModules(g, nodeMap, deps,
         fallbackModule(g, nodeMap, acc, deps[i][2],
                        resolveVisible(g, nodeMap, acc.cache, deps[i][1])),
         i + 1)

\* if (visibleDeps.size === 0) { the fallback pass }
withFallback(g, nodeMap, deps, labelled) ==
  IF Len(labelled.deps) = 0 THEN fallbackModules(g, nodeMap, deps, labelled, 1)
  ELSE labelled

\* Array.from(set) followed by list.sort(), for every edge key
sortedLabels(objectsByEdge) ==
  [i \in 1..Len(objectsByEdge) |->
     <<objectsByEdge[i][1], SortStrings(objectsByEdge[i][2])>>]

\* the return value; cache is the visibleCache when the call returns
aggregated(final) ==
  [deps |-> final.deps, objects |-> sortedLabels(final.objectsByEdge),
   cache |-> final.cache]

buildVisibleModuleDeps(g, nodeMap, deps, depObjects) ==
  aggregated(withFallback(g, nodeMap, deps,
               aggregateConsumers(g, nodeMap, depObjects,
                 [deps |-> <<>>, objectsByEdge |-> <<>>, cache |-> <<>>], 1)))

RECURSIVE curveHash(_, _, _)
curveHash(key, i, hash) ==
  IF i > Len(key) THEN hash ELSE curveHash(key, i + 1, (hash * 31 + key[i]) % 97)

curveBias(key) == IF curveHash(key, 1, 0) % 2 = 0 THEN 1 ELSE -1

----------------------------------------------------------------------------
(* Rebuild pipeline.  A handler is a function of the program state st, a    *)
(* record of the variables plus the flag thrown, set when an exception has  *)
(* unwound the handler: every later step of the handler is then skipped.    *)

nodeVisible(nodeMap, path) ==
  NodeId(path) \in DOMAIN nodeMap /\ nodeMap[NodeId(path)].visible

RECURSIVE treeTubes(_, _, _)
\* the state.edges.forEach loop of rebuildEdges
treeTubes(st, i, tubes) ==
  IF i > Len(st.edges) THEN tubes
  ELSE treeTubes(st, i + 1,
         IF ~nodeVisible(st.nodes, st.edges[i][1]) \/ ~nodeVisible(st.nodes, st.edges[i][2])
           THEN tubes
           ELSE Append(tubes, [kind |-> "tree", from |-> NodeId(st.edges[i][1]),
                               to |-> NodeId(st.edges[i][2]),
                               objects |-> <<>>, bias |-> 0]))

RECURSIVE depTubesOf(_, _, _, _, _, _)
\* the deps.forEach loop of rebuildEdges for one visibleDeps entry
depTubesOf(st, objects, modulePath, deps, j, tubes) ==
  IF j > Len(deps) THEN tubes
  ELSE depTubesOf(st, objects, modulePath, deps, j + 1,
         IF deps[j] = ROOT_KEY \/ ~MapHas(st.graph.modules, deps[j]) THEN tubes
         ELSE IF ~nodeVisible(st.nodes, modulePath) \/ ~nodeVisible(st.nodes, deps[j])
           THEN tubes
         ELSE Append(tubes, [kind |-> "dep", from |-> NodeId(modulePath),
                             to |-> NodeId(deps[j]),
                             objects |-> getOrEmpty(objects, modulePath \o Arrow \o deps[j]),
                             bias |-> curveBias(modulePath \o Arrow \o deps[j])]))

RECURSIVE depTubes(_, _, _, _, _)
\* the visibleDeps.forEach loop of rebuildEdges
depTubes(st, deps, objects, i, tubes) ==
  IF i > Len(deps) THEN tubes
  ELSE depTubes(st, deps, objects, i + 1,
         IF deps[i][1] = ROOT_KEY \/ ~MapHas(st.graph.modules, deps[i][1]) THEN tubes
         ELSE depTubesOf(st, objects, deps[i][1], deps[i][2], 1, tubes))

\* rebuildEdges once buildVisibleModuleDeps has returned agg
drawEdges(st, agg) ==
  [st EXCEPT !.edgeMeshes = depTubes(st, agg.deps, agg.objects, 1, treeTubes(st, 1, <<>>)),
             !.visibleDeps = agg.deps,
             !.edgeObjects = agg.objects,
             !.visibleCache = agg.cache]

\* rebuildEdges handing the visibleCache of the previous rebuild on
rebuildEdgesCached(st) ==
  drawEdges(st, aggregated(withFallback(st.graph, st.nodes, st.moduleDeps,
                  aggregateConsumers(st.graph, st.nodes, st.moduleDepObjects,
                    [deps |-> <<>>, objectsByEdge |-> <<>>, cache |-> st.visibleCache], 1))))

rebuildEdges(st) ==
  drawEdges(st, buildVisibleModuleDeps(st.graph, st.nodes, st.moduleDeps,
                                       st.moduleDepObjects))

\* the two loops of applyLayout over the sprites: those of positioned
\* modules are shown, every other sprite is hidden
showPositioned(nodeMap, shown) ==
  [id \in DOMAIN nodeMap |->
     IF id \in shown THEN [nodeMap[id] EXCEPT !.visible = TRUE] ELSE nodeMap[id]]

\* hideOthers leaving the sprites of unpositioned modules as they are
keepOthers(nodeMap, shown) == nodeMap

hideOthers(nodeMap, shown) ==
  [id \in DOMAIN nodeMap |->
     IF id \notin shown THEN [nodeMap[id] EXCEPT !.visible = FALSE] ELSE nodeMap[id]]

\* the identifiers applyLayout collects in its local set visible
shownIds(nodeMap, layout) ==
  {NodeId(layout.positions[i][1]) : i \in 1..Len(layout.positions)} \cap DOMAIN nodeMap

applyLayout(st, layout) ==
  rebuildEdges([st EXCEPT !.nodes = hideOthers(showPositioned(@, shownIds(@, layout)),
                                               shownIds(@, layout)),
                          !.positions = layout.positions,
                          !.edges = layout.edges])

RECURSIVE buildTreeRow(_, _, _, _)
RECURSIVE buildTreeRows(_, _, _, _, _)
\* acc holds the rows appended to the module list so far and whether the
\* build has thrown: module.description of a path with no module entry is a
\* TypeError
buildTreeRow(g, expanded, acc, path) ==
  IF acc.thrown THEN acc
  ELSE IF ~MapHas(g.modules, path) THEN [rows |-> acc.rows, thrown |-> TRUE]
  ELSE IF Len(MapGet(g.modules, path).children) > 0 /\ path \in expanded
    THEN buildTreeRows(g, expanded,
                       [rows |-> Append(acc.rows, [path |-> path, hasChildren |-> TRUE]),
                        thrown |-> FALSE],
                       MapGet(g.modules, path).children, 1)
    ELSE [rows |-> Append(acc.rows,
                          [path |-> path,
                           hasChildren |-> Len(MapGet(g.modules, path).children) > 0]),
          thrown |-> FALSE]

buildTreeRows(g, expanded, acc, paths, i) ==
  IF i > Len(paths) THEN acc
  ELSE buildTreeRows(g, expanded, buildTreeRow(g, expanded, acc, paths[i]), paths, i + 1)

\* buildModuleList once the rows are built
listBuilt(st, built) == [st EXCEPT !.listRows = built.rows, !.thrown = built.thrown]

\* the list is emptied first; state.graph.rootModules throws while
\* state.graph is null
buildModuleList(st) ==
  IF st.graph = NoGraph THEN [st EXCEPT !.listRows = <<>>, !.thrown = TRUE]
  ELSE listBuilt(st, buildTreeRows(st.graph, st.expandedModules,
                                   [rows |-> <<>>, thrown |-> FALSE],
                                   st.graph.rootModules, 1))

updateGraph(st) ==
  IF st.thrown THEN st
  ELSE buildModuleList(applyLayout(st, layoutTree(st.graph, st.expandedModules)))

----------------------------------------------------------------------------
(* Camera tweens, pulse, selection *)

Clamp(zoom) == Min(2500, Max(400, zoom))

\* tweenZoom(multiplier), the multiplier in percent
tweenZoom(st, percent) ==
  IF st.thrown THEN st
  ELSE [st EXCEPT !.zoomTween = << [from |-> st.camera.zoom,
                                    to |-> Clamp((st.camera.zoom * percent) \div 100),
                                    start |-> st.now, duration |-> 260] >>]

tweenZoomTo(st, target) ==
  IF st.thrown THEN st
  ELSE [st EXCEPT !.zoomTween = << [from |-> st.camera.zoom, to |-> Clamp(target),
                                    start |-> st.now, duration |-> 320] >>]

\* node.mesh.position as applyLayout sets it from the layout (xSpacing 40,
\* ySpacing 14, the root at the origin); a sprite that was never placed is at
\* the origin
meshPosition(st, path) ==
  IF MapHas(st.positions, path)
    THEN [x |-> MapGet(st.positions, path).x * 40 - MapGet(st.positions, ROOT_KEY).x * 40,
          y |-> -(MapGet(st.positions, path).y2 * 7) + MapGet(st.positions, ROOT_KEY).y2 * 7]
    ELSE [x |-> 0, y |-> 0]

panTo(st, position) ==
  IF st.thrown THEN st
  ELSE [st EXCEPT !.panTween = << [from |-> [x |-> st.camera.x, y |-> st.camera.y],
                                   to |-> position, start |-> st.now,
                                   duration |-> 320] >>]

\* pulseTargets.add(node)
pulseNode(st, id) ==
  IF st.thrown THEN st
  ELSE [st EXCEPT !.pulseTargets = @ \cup {id}]

\* what renderDetails writes to the details panel: the hint, the notice of
\* an unknown selection, the panel of the synthetic root, or the panel of the
\* selected module, which the snapshot and the module path determine
renderDetails(st) ==
  IF st.thrown THEN st
  ELSE [st EXCEPT !.detailsBody =
          IF st.selectedId = Null
            THEN [text |-> "Select a module to inspect dependencies.", modulePath |-> EmptyStr]
          ELSE IF st.selectedId \notin DOMAIN st.nodes
            THEN [text |-> "Selection not found.", modulePath |-> EmptyStr]
          ELSE IF st.nodes[st.selectedId].modulePath = ROOT_KEY
            THEN [text |-> "Root", modulePath |-> ROOT_KEY]
          ELSE [text |-> "Module", modulePath |-> st.nodes[st.selectedId].modulePath]]

setSelected(st, id) ==
  IF st.thrown THEN st ELSE renderDetails([st EXCEPT !.selectedId = id])

focusModule(st, path) ==
  IF st.thrown \/ NodeId(path) \notin DOMAIN st.nodes THEN st
  ELSE setSelected(pulseNode(panTo(tweenZoomTo(st, 1020), meshPosition(st, path)),
                             NodeId(path)),
                   NodeId(path))

\* a frame that jumps to the targets of the tweens and clears the selection
animateDeselecting(st) ==
  [st EXCEPT !.camera.zoom = IF st.zoomTween = <<>> THEN @ ELSE st.zoomTween[1].to,
             !.camera.x = IF st.panTween = <<>> THEN @ ELSE st.panTween[1].to.x,
             !.camera.y = IF st.panTween = <<>> THEN @ ELSE st.panTween[1].to.y,
             !.zoomTween = <<>>, !.panTween = <<>>,
             !.selectedId = IF st.panTween = <<>> THEN @ ELSE Null]

\* one frame of the render loop at the time st.now: each tween sets the
\* camera to its eased value and ends once its duration has passed.  The
\* eased value is rounded down to the unit of the camera field.  The pulse
\* sets the scale of the pulsing sprites, which nothing else reads.
animate(st) ==
  LET eased(tween, from, to) ==
        LET elapsed == st.now - tween.start
            whole == tween.duration * tween.duration
        IN IF elapsed >= tween.duration THEN to
           ELSE IF 2 * elapsed < tween.duration
             THEN from + ((to - from) * 2 * elapsed * elapsed) \div whole
           ELSE from + ((to - from)
                          * (whole - 2 * (tween.duration - elapsed)
                                       * (tween.duration - elapsed))) \div whole
      ended(tween) == st.now - tween.start >= tween.duration
      zoomed == IF st.zoomTween = <<>> THEN st
                ELSE [st EXCEPT !.camera.zoom = eased(st.zoomTween[1], st.zoomTween[1].from,
                                                      st.zoomTween[1].to),
                                !.zoomTween = IF ended(st.zoomTween[1]) THEN <<>> ELSE @]
  IN IF zoomed.panTween = <<>> THEN zoomed
     ELSE [zoomed EXCEPT
             !.camera.x = eased(st.panTween[1], st.panTween[1].from.x, st.panTween[1].to.x),
             !.camera.y = eased(st.panTween[1], st.panTween[1].from.y, st.panTween[1].to.y),
             !.panTween = IF ended(st.panTween[1]) THEN <<>> ELSE @]

----------------------------------------------------------------------------
(* Expansion and view history *)

\* an add, delete or clear on the Set object state.expandedModules refers to:
\* the object changes in place, so a history entry that holds the same
\* object (field shared) changes with it
mutateExpanded(st, expanded) ==
  [st EXCEPT !.expandedModules = expanded,
             !.history = [i \in 1..Len(@) |->
                            IF @[i].shared THEN [@[i] EXCEPT !.expandedModules = expanded]
                            ELSE @[i]]]

\* toggleModule collapsing the modules below the path with it
toggleSubtree(st, path) ==
  IF st.thrown \/ path = EmptyStr \/ path = ROOT_KEY THEN st
  ELSE updateGraph(
         tweenZoomTo(mutateExpanded(st, IF path \in st.expandedModules
                                          THEN {other \in st.expandedModules :
                                                  ~StartsWith(other, path)}
                                          ELSE st.expandedModules \cup {path}),
                     IF path \in st.expandedModules THEN DEFAULT_ZOOM
                     ELSE (DEFAULT_ZOOM * 92) \div 100))

toggleModule(st, path) ==
  IF st.thrown \/ path = EmptyStr \/ path = ROOT_KEY THEN st
  ELSE updateGraph(
         tweenZoomTo(mutateExpanded(st, IF path \in st.expandedModules
                                          THEN st.expandedModules \ {path}
                                          ELSE st.expandedModules \cup {path}),
                     IF path \in st.expandedModules THEN DEFAULT_ZOOM
                     ELSE (DEFAULT_ZOOM * 92) \div 100))

\* the snapshot holding the live Set itself instead of a copy
captureShared(st) ==
  [selectedId |-> st.selectedId,
   expandedModules |-> st.expandedModules,
   shared |-> TRUE,
   camera |-> [x |-> st.camera.x, y |-> st.camera.y, zoom |-> st.camera.zoom]]

\* Array.from makes a new array: the snapshot does not hold the live Set
captureViewState(st) ==
  [selectedId |-> st.selectedId,
   expandedModules |-> st.expandedModules,
   shared |-> FALSE,
   camera |-> [x |-> st.camera.x, y |-> st.camera.y, zoom |-> st.camera.zoom]]

\* restoreViewState after updateGraph and setSelected
restoreCamera(st, snapshot) ==
  IF st.thrown THEN st
  ELSE [st EXCEPT !.camera = [x |-> snapshot.camera.x, y |-> snapshot.camera.y,
                              zoom |-> IF snapshot.camera.zoom = 0 THEN DEFAULT_ZOOM
                                       ELSE snapshot.camera.zoom],
                  !.historyLocked = FALSE]

\* new Set(...) makes a new object: no entry of the stack holds the live Set
\* afterwards
restoreViewState(st, snapshot) ==
  IF st.thrown THEN st
  ELSE restoreCamera(
         setSelected(updateGraph([st EXCEPT !.historyLocked = TRUE,
                                            !.expandedModules = snapshot.expandedModules,
                                            !.history = [i \in 1..Len(@) |->
                                                           [@[i] EXCEPT !.shared = FALSE]]]),
                     snapshot.selectedId),
         snapshot)

\* pushHistory without the comparison with the top entry
pushAlways(st) ==
  IF st.thrown \/ st.historyLocked THEN st
  ELSE [st EXCEPT !.history = Append(@, captureViewState(st))]

pushHistory(st) ==
  IF st.thrown \/ st.historyLocked THEN st
  ELSE IF Len(st.history) > 0
          /\ st.history[Len(st.history)].selectedId = captureViewState(st).selectedId
    THEN st
    ELSE [st EXCEPT !.history = Append(@, captureViewState(st))]

\* history.shift() in place of history.pop()
popOldest(st) ==
  IF Len(st.history) = 0 THEN st
  ELSE [st EXCEPT !.history = Tail(@)]

\* the stack after popHistory
popHistory(st) ==
  IF Len(st.history) = 0 THEN st
  ELSE [st EXCEPT !.history = SubSeq(@, 1, Len(@) - 1)]

\* the value popHistory returns: the empty sequence for null, the
\* one-element sequence of the snapshot otherwise
popped(st) ==
  IF Len(st.history) = 0 THEN <<>> ELSE << st.history[Len(st.history)] >>

RECURSIVE expandModulePathFrom(_, _, _)
\* the while loop of expandModulePath, from the module current on
expandModulePathFrom(g, expanded, current) ==
  IF current = EmptyStr \/ current = ROOT_KEY THEN expanded
  ELSE IF parentOf(g, current) = EmptyStr \/ parentOf(g, current) = current
    THEN expanded \cup {current}
    ELSE expandModulePathFrom(g, expanded \cup {current}, parentOf(g, current))

expandModulePath(st, path) ==
  IF st.thrown \/ path = EmptyStr \/ path = ROOT_KEY THEN st
  ELSE mutateExpanded(st, expandModulePathFrom(st.graph, st.expandedModules, path))

focusModulePath(st, path) ==
  IF path = EmptyStr THEN st
  ELSE focusModule(updateGraph(expandModulePath(pushHistory(st), path)), path)

----------------------------------------------------------------------------
(* The session *)

\* the program state of the current step, no exception pending
State ==
  [graph |-> graph, moduleDeps |-> moduleDeps, moduleDepObjects |-> moduleDepObjects,
   nodes |-> nodes, expandedModules |-> expandedModules, selectedId |-> selectedId,
   history |-> history, historyLocked |-> historyLocked, positions |-> positions,
   edges |-> edges, edgeMeshes |-> edgeMeshes, visibleDeps |-> visibleDeps,
   edgeObjects |-> edgeObjects, visibleCache |-> visibleCache, listRows |-> listRows,
   camera |-> camera, zoomTween |-> zoomTween, panTween |-> panTween,
   pulseTargets |-> pulseTargets, objectRefIndex |-> objectRefIndex,
   searchEntries |-> searchEntries, objectQuery |-> objectQuery,
   objectResults |-> objectResults, detailsBody |-> detailsBody,
   animating |-> animating, now |-> now, thrown |-> FALSE]

\* the state a handler leaves behind, whether it returned or threw
Becomes(st) ==
  /\ graph' = st.graph
  /\ moduleDeps' = st.moduleDeps
  /\ moduleDepObjects' = st.moduleDepObjects
  /\ nodes' = st.nodes
  /\ expandedModules' = st.expandedModules
  /\ selectedId' = st.selectedId
  /\ history' = st.history
  /\ historyLocked' = st.historyLocked
  /\ positions' = st.positions
  /\ edges' = st.edges
  /\ edgeMeshes' = st.edgeMeshes
  /\ visibleDeps' = st.visibleDeps
  /\ edgeObjects' = st.edgeObjects
  /\ visibleCache' = st.visibleCache
  /\ listRows' = st.listRows
  /\ camera' = st.camera
  /\ zoomTween' = st.zoomTween
  /\ panTween' = st.panTween
  /\ pulseTargets' = st.pulseTargets
  /\ objectRefIndex' = st.objectRefIndex
  /\ searchEntries' = st.searchEntries
  /\ objectQuery' = st.objectQuery
  /\ objectResults' = st.objectResults
  /\ detailsBody' = st.detailsBody
  /\ animating' = st.animating
  /\ now' = st.now

\* the state before the first updateGraph of bootstrap; built is the result
\* of buildModuleDeps.  The search box and the result list are empty.
loaded(g, built) ==
  [graph |-> g, moduleDeps |-> built.moduleDeps,
   moduleDepObjects |-> built.moduleDepObjects,
   nodes |-> buildNodes(g), expandedModules |-> {}, selectedId |-> Null,
   history |-> <<>>, historyLocked |-> FALSE, positions |-> <<>>,
   edges |-> <<>>, edgeMeshes |-> <<>>, visibleDeps |-> <<>>,
   edgeObjects |-> <<>>, visibleCache |-> <<>>, listRows |-> <<>>,
   camera |-> [x |-> 0, y |-> 0, zoom |-> DEFAULT_ZOOM],
   zoomTween |-> <<>>, panTween |-> <<>>, pulseTargets |-> {},
   objectRefIndex |-> buildObjectIndex(g).objectRefIndex,
   searchEntries |-> buildObjectIndex(g).searchEntries,
   objectQuery |-> EmptyStr,
   objectResults |-> [message |-> "", rows |-> <<>>, more |-> <<>>],
   detailsBody |-> [text |-> "", modulePath |-> EmptyStr],
   animating |-> FALSE, now |-> 0,
   thrown |-> FALSE]

\* bootstrap once fetchGraph has resolved to g: the then-callback, whose last
\* step starts the render loop, and the catch-callback where a step throws
bootstrap(g) ==
  LET built == setupObjectSearch(updateGraph(loaded(g, buildModuleDeps(g))))
  IN IF built.thrown
       THEN [built EXCEPT !.detailsBody = [text |-> "Failed to load graph", modulePath |-> EmptyStr]]
       ELSE [built EXCEPT !.animating = TRUE]

\* the catch-callback reached after buildNodes and buildObjectIndex have run
fetchFailedAfterBuild ==
  [loaded(NoGraph, [moduleDeps |-> <<>>, moduleDepObjects |-> <<>>])
     EXCEPT !.detailsBody = [text |-> "Failed to load graph", modulePath |-> EmptyStr]]

\* bootstrap once fetchGraph has rejected: the state is the one the module
\* starts with, and the catch-callback writes the message
fetchFailed ==
  [graph |-> NoGraph, moduleDeps |-> <<>>, moduleDepObjects |-> <<>>,
   nodes |-> <<>>, expandedModules |-> {}, selectedId |-> Null,
   history |-> <<>>, historyLocked |-> FALSE, positions |-> <<>>,
   edges |-> <<>>, edgeMeshes |-> <<>>, visibleDeps |-> <<>>,
   edgeObjects |-> <<>>, visibleCache |-> <<>>, listRows |-> <<>>,
   camera |-> [x |-> 0, y |-> 0, zoom |-> DEFAULT_ZOOM],
   zoomTween |-> <<>>, panTween |-> <<>>, pulseTargets |-> {},
   objectRefIndex |-> <<>>, searchEntries |-> <<>>,
   objectQuery |-> EmptyStr,
   objectResults |-> [message |-> "", rows |-> <<>>, more |-> <<>>],
   detailsBody |-> [text |-> "Failed to load graph", modulePath |-> EmptyStr],
   animating |-> FALSE, now |-> 0,
   thrown |-> FALSE]

\* the variables hold the state st
Holds(st) ==
  /\ graph = st.graph
  /\ moduleDeps = st.moduleDeps
  /\ moduleDepObjects = st.moduleDepObjects
  /\ nodes = st.nodes
  /\ expandedModules = st.expandedModules
  /\ selectedId = st.selectedId
  /\ history = st.history
  /\ historyLocked = st.historyLocked
  /\ positions = st.positions
  /\ edges = st.edges
  /\ edgeMeshes = st.edgeMeshes
  /\ visibleDeps = st.visibleDeps
  /\ edgeObjects = st.edgeObjects
  /\ visibleCache = st.visibleCache
  /\ listRows = st.listRows
  /\ camera = st.camera
  /\ zoomTween = st.zoomTween
  /\ panTween = st.panTween
  /\ pulseTargets = st.pulseTargets
  /\ objectRefIndex = st.objectRefIndex
  /\ searchEntries = st.searchEntries
  /\ objectQuery = st.objectQuery
  /\ objectResults = st.objectResults
  /\ detailsBody = st.detailsBody
  /\ animating = st.animating
  /\ now = st.now

Init == \E g \in Snapshots : Holds(bootstrap(g))

\* the history is bounded: a handler that would append a snapshot runs only
\* while the stack holds fewer than MaxHistory entries, or fewer than
\* MaxStack entries in a session on the small snapshot GraphPkg
HistoryBound(g) == IF g = GraphPkg THEN MaxStack ELSE MaxHistory

HistoryRoom(st) ==
  Len(st.history) < HistoryBound(st.graph) \/ pushHistory(st).history = st.history

\* dblclick on the sprite of a visible node
dblclick(st, id) ==
  focusModule(toggleModule(pushHistory(st), st.nodes[id].modulePath),
              st.nodes[id].modulePath)

DblClick ==
  \E id \in DOMAIN nodes :
    /\ nodes[id].visible
    /\ HistoryRoom(State)
    /\ Becomes(dblclick(State, id))

\* the branch of the row click handler for a row without children
expandLeaf(st, path) ==
  IF st.thrown THEN st ELSE updateGraph(mutateExpanded(st, st.expandedModules \cup {path}))

\* click on a row of the module list
rowClick(st, row) ==
  focusModule(IF row.hasChildren THEN toggleModule(pushHistory(st), row.path)
              ELSE expandLeaf(pushHistory(st), row.path),
              row.path)

RowClick ==
  \E i \in 1..Len(listRows) :
    /\ HistoryRoom(State)
    /\ Becomes(rowClick(State, listRows[i]))

\* the paths a search result or a details chip can name: the modules and
\* the child paths of the snapshot
FocusPaths(g) ==
  Range(MapKeys(g.modules))
    \cup UNION {Range(g.modules[i][2].children) : i \in 1..Len(g.modules)}

Focus ==
  \E path \in FocusPaths(graph) :
    /\ HistoryRoom(State)
    /\ Becomes(focusModulePath(State, path))

\* click on expand-all
expandAll(st) ==
  updateGraph(tweenZoom(mutateExpanded(st, st.expandedModules
                                             \cup Range(moduleOrder(st.graph))),
                        105))

ExpandAll == Becomes(expandAll(State))

\* collapse-all without the call of updateGraph
collapseAllUnbuilt(st) == tweenZoom(mutateExpanded(st, {}), 95)

\* click on collapse-all
collapseAll(st) ==
  updateGraph(tweenZoom(mutateExpanded(st, {}), 95))

CollapseAll == Becomes(collapseAll(State))

\* click on the Back button
navBack(st) ==
  IF popped(st) = <<>> THEN st
  ELSE restoreViewState(popHistory(st), popped(st)[1])

Back == Becomes(navBack(State))

UserNext ==
  \/ DblClick
  \/ RowClick
  \/ Focus
  \/ ExpandAll
  \/ CollapseAll
  \/ Back

Spec == Init /\ [][UserNext]_vars

----------------------------------------------------------------------------
(* The session with its render loop, and the session whose fetch failed *)

\* a frame of the render loop, which runs once bootstrap has started it.
\* The browser chooses the delay of a frame: a half and the whole of the
\* longest tween are followed.
Tick ==
  /\ animating
  /\ \E dt \in {160, 320} :
       /\ now + dt <= 160 * MaxFrames
       /\ Becomes(animate([State EXCEPT !.now = @ + dt]))

\* the timer of pulseNode: the sprite stops pulsing
PulseEnd ==
  \E id \in pulseTargets : Becomes([State EXCEPT !.pulseTargets = @ \ {id}])

\* a click on the viewport, pick(event, true): on the sprite of a visible
\* node it selects the node, on empty space it clears the selection
Click ==
  \E id \in {n \in DOMAIN nodes : nodes[n].visible} \cup {Null} :
    Becomes(setSelected(State, id))

\* the fetch fails, or it yields the snapshot of two modules
LoadInit == Holds(fetchFailed) \/ Holds(bootstrap(GraphPair))

\* the session with the frames of its render loop and its pulse timers
LiveSpec == LoadInit /\ [][UserNext \/ Tick \/ PulseEnd]_vars

\* the session with the clicks on the viewport, between frames
LoadSpec == LoadInit /\ [][UserNext \/ Click]_vars

----------------------------------------------------------------------------
(* The rebuild as a function of the snapshot and the expansion set *)

\* the first updateGraph of a session on the snapshot g whose expansion set
\* is expanded
FreshRebuild(g, expanded) ==
  updateGraph([loaded(g, buildModuleDeps(g)) EXCEPT !.expandedModules = expanded])

\* the inputs of the rebuild: a snapshot and any set of its paths
RebuildInit ==
  \E g \in Inputs : \E expanded \in SUBSET FocusPaths(g) :
    Holds(FreshRebuild(g, expanded))

\* toggleModule(path) for any path of the snapshot
Toggle == \E path \in FocusPaths(graph) : Becomes(toggleModule(State, path))

RebuildNext == Toggle

RebuildSpec == RebuildInit /\ [][RebuildNext]_vars

----------------------------------------------------------------------------
(* The session on the small snapshot, with a deeper history *)

HistoryInit == Holds(bootstrap(GraphPkg))

HistorySpec == HistoryInit /\ [][UserNext]_vars

----------------------------------------------------------------------------
(* The search box *)

\* what the user types: "", " ", "s", "S", " X ", "name=x", "T", "t", "zz",
\* "(", "[GROUP", "v "
Queries ==
  {<<>>, <<32>>, <<115>>, <<83>>, <<32, 88, 32>>, <<110, 97, 109, 101, 61, 120>>,
   <<84>>, <<116>>, <<122, 122>>, <<40>>, <<91, 71, 82, 79, 85, 80>>, <<118, 32>>}

\* the input listener of the search box, the box holding value
input(st, value) == renderSearchResults([st EXCEPT !.objectQuery = value], value)

SearchInit ==
  \E g \in Inputs \cup IndexSnapshots \cup {GraphWide, GraphFlags} : Holds(bootstrap(g))

Search == \E value \in Queries : Becomes(input(State, value))

SearchSpec == SearchInit /\ [][Search]_vars

----------------------------------------------------------------------------
(* Properties of the dependency aggregation *)

\* the consumer->provider module pairs the load-time pre-pass recorded
PrePassPairs ==
  UNION {{<<moduleDepObjects[i][1], moduleDepObjects[i][2][j][1]>> :
            j \in 1..Len(moduleDepObjects[i][2])} : i \in 1..Len(moduleDepObjects)}

\* the labels the pre-pass recorded for the pair (c, p)
PrePassLabels(c, p) == Range(MapGet(MapGet(moduleDepObjects, c), p))

\* resolveVisible(modulePath) of a rebuild that has resolved nothing yet
StandIn(modulePath) == resolveVisible(graph, nodes, <<>>, modulePath).value

\* the aggregated edges of the last rebuild, as (from, to) pairs
AggregatedEdges ==
  UNION {{<<visibleDeps[i][1], visibleDeps[i][2][j]>> : j \in 1..Len(visibleDeps[i][2])} :
           i \in 1..Len(visibleDeps)}

\* how many (from, to) entries the returned adjacency holds
AggregatedCount == SumSeq([i \in 1..Len(visibleDeps) |-> Len(visibleDeps[i][2])])

\* the pre-pass pairs that collapse onto the visible pair (u, v)
CollapsingPairs(u, v) ==
  {pair \in PrePassPairs : StandIn(pair[1]) = u /\ StandIn(pair[2]) = v}

\* C1: after every rebuild the aggregated edge set is exactly the set of
\* pairs (resolveVisible(c), resolveVisible(p)), (c, p) a pre-pass pair, whose
\* two stand-ins are not the synthetic root and differ; every such pair is
\* held exactly once (one adjacency entry per consumer stand-in, no provider
\* stand-in twice in it)
AggregatedEdgesExact ==
  /\ AggregatedEdges =
       {e \in {<<StandIn(pair[1]), StandIn(pair[2])>> : pair \in PrePassPairs} :
          e[1] # ROOT_KEY /\ e[2] # ROOT_KEY /\ e[1] # e[2]}
  /\ AggregatedCount = Cardinality(AggregatedEdges)
  /\ Cardinality(Range(MapKeys(visibleDeps))) = Len(visibleDeps)

\* a dependency between the hidden modules a.b.d and a.c.f is drawn between
\* their visible ancestors a.b and a.c
HiddenPairSurfaces ==
  /\ <<PathABD, PathACF>> \in PrePassPairs
  /\ ~nodeVisible(nodes, PathABD)
  /\ ~nodeVisible(nodes, PathACF)
  /\ <<PathAB, PathAC>> \in AggregatedEdges
  /\ Cardinality(CollapsingPairs(PathAB, PathAC)) > 1

\* C2: the label list of an aggregated edge (u, v) is the union of the label
\* sets of all the pre-pass pairs collapsing onto (u, v), without duplicates,
\* in ascending code-unit order
LabelsAreSortedUnion ==
  /\ Range(MapKeys(edgeObjects)) = {e[1] \o Arrow \o e[2] : e \in AggregatedEdges}
  /\ \A e \in AggregatedEdges :
       LET labels == MapGet(edgeObjects, e[1] \o Arrow \o e[2])
       IN /\ Range(labels) =
               UNION {PrePassLabels(pair[1], pair[2]) : pair \in CollapsingPairs(e[1], e[2])}
          /\ \A i \in 1..Len(labels) : \A j \in 1..Len(labels) :
               i < j => StrLess(labels[i], labels[j])

\* the edge a.b -> a.c merges the labels of two pre-pass pairs that share
\* a label, one of the pairs lacks a label of the edge, and the labels of the
\* pair (a.b, a.c.f) were recorded in an order that is not the sorted one
LabelsOfTwoPairsMerged ==
  /\ <<PathAB, PathAC>> \in AggregatedEdges
  /\ Len(MapGet(edgeObjects, PathAB \o Arrow \o PathAC)) > 1
  /\ \E p1 \in CollapsingPairs(PathAB, PathAC) : \E p2 \in CollapsingPairs(PathAB, PathAC) :
       /\ p1 # p2
       /\ PrePassLabels(p1[1], p1[2]) \cap PrePassLabels(p2[1], p2[2]) # {}
       /\ PrePassLabels(p2[1], p2[2]) # Range(MapGet(edgeObjects, PathAB \o Arrow \o PathAC))
  /\ MapGet(MapGet(moduleDepObjects, PathAB), PathACF)
       # MapGet(edgeObjects, PathAB \o Arrow \o PathAC)
  /\ Range(MapGet(MapGet(moduleDepObjects, PathAB), PathACF))
       = Range(MapGet(edgeObjects, PathAB \o Arrow \o PathAC))

\* C3: in every state a session of toggle, list-row click, focus,
\* expand-all, collapse-all and Back reaches, no aggregated edge is a
\* self-loop, none has the synthetic root as an endpoint, and both endpoints
\* of each are in the positions map of the current layout
AggregatedEdgesVisible ==
  \A e \in AggregatedEdges :
    /\ e[1] # e[2]
    /\ e[1] # ROOT_KEY
    /\ e[2] # ROOT_KEY
    /\ MapHas(positions, e[1])
    /\ MapHas(positions, e[2])

\* the pre-pass pair (a.b.d, a.b) collapses onto the one module a.b and is
\* discarded while other edges are drawn, a.b.d having no position
SelfLoopDiscarded ==
  /\ <<PathABD, PathAB>> \in PrePassPairs
  /\ StandIn(PathABD) = PathAB
  /\ ~MapHas(positions, PathABD)
  /\ AggregatedEdges # {}
  /\ Len(history) > 0

----------------------------------------------------------------------------
(* Properties of the visibility resolver *)

RECURSIVE ParentChain(_)
\* the parent chain of a module, the module itself first
ParentChain(path) ==
  IF path = EmptyStr THEN <<>>
  ELSE IF parentOf(graph, path) = EmptyStr \/ parentOf(graph, path) = path THEN <<path>>
  ELSE <<path>> \o ParentChain(parentOf(graph, path))

\* the places of the parent chain whose sprite is visible
VisibleOnChain(path) ==
  {i \in 1..Len(ParentChain(path)) : nodeVisible(nodes, ParentChain(path)[i])}

\* the first visible module of the parent chain, the root identifier if none
FirstVisible(path) ==
  IF VisibleOnChain(path) = {} THEN ROOT_KEY
  ELSE ParentChain(path)[CHOOSE i \in VisibleOnChain(path) :
                           \A j \in VisibleOnChain(path) : i <= j]

\* the paths resolveVisible is asked about: the modules and child paths of
\* the snapshot, a path the snapshot does not know, the empty path, the root
ResolvedPaths == FocusPaths(graph) \cup {PathGhost, EmptyStr, ROOT_KEY}

\* C4: resolveVisible returns the root identifier for the empty path and
\* for the synthetic root; otherwise the first module of the parent chain,
\* the path itself included, whose sprite is visible, and the root
\* identifier only when the chain has no visible module; the answer with
\* the memo of the last rebuild equals the answer without a memo, and every
\* memo entry holds the answer without a memo
ResolveIsFirstVisible ==
  /\ StandIn(EmptyStr) = ROOT_KEY
  /\ StandIn(ROOT_KEY) = ROOT_KEY
  /\ \A path \in ResolvedPaths \ {EmptyStr, ROOT_KEY} :
       /\ StandIn(path) = FirstVisible(path)
       /\ StandIn(path) = ROOT_KEY <=> VisibleOnChain(path) = {}
  /\ \A path \in ResolvedPaths :
       resolveVisible(graph, nodes, visibleCache, path).value = StandIn(path)
  /\ \A i \in 1..Len(visibleCache) : visibleCache[i][2] = StandIn(visibleCache[i][1])

\* a is collapsed while a.b is still in the expansion set: the hidden a.b.d
\* resolves past the hidden a.b to a, the memo holds that answer, and an
\* unknown path resolves to the root identifier
ResolvePastHiddenParent ==
  /\ PathAB \in expandedModules
  /\ PathA \notin expandedModules
  /\ StandIn(PathABD) = PathA
  /\ MapHas(visibleCache, PathABD)
  /\ MapGet(visibleCache, PathABD) = PathA
  /\ StandIn(PathGhost) = ROOT_KEY

\* C5: for every path, the empty path and the synthetic root included,
\* resolving the stand-in of the path gives the stand-in again, without a
\* memo and with the memo of the last rebuild
ResolveIdempotent ==
  \A path \in ResolvedPaths :
    /\ StandIn(StandIn(path)) = StandIn(path)
    /\ resolveVisible(graph, nodes,
                      resolveVisible(graph, nodes, visibleCache, path).cache,
                      resolveVisible(graph, nodes, visibleCache, path).value).value
         = resolveVisible(graph, nodes, visibleCache, path).value

\* a.c.f is hidden and resolves to the collapsed a.c, another module than
\* itself, which resolves to itself
StandInOfHiddenLeaf ==
  /\ PathAC \notin expandedModules
  /\ PathAB \in expandedModules
  /\ StandIn(PathACF) = PathAC
  /\ StandIn(PathAC) = PathAC
  /\ StandIn(PathABD) = PathABD

----------------------------------------------------------------------------
(* Properties of the tree layout *)

\* the modules of the module map
ModulePaths == Range(MapKeys(graph.modules))

\* a module without a parent in the module map
IsRootModule(path) ==
  parentOf(graph, path) = EmptyStr \/ ~MapHas(graph.modules, parentOf(graph, path))

RECURSIVE ProperAncestors(_)
\* the modules above a module, following the parent links up to a root module
ProperAncestors(path) ==
  IF IsRootModule(path) THEN {}
  ELSE {parentOf(graph, path)} \cup ProperAncestors(parentOf(graph, path))

\* the children the snapshot lists for a path, in no order
ChildrenOf(path) ==
  IF MapHas(graph.modules, path) THEN Range(MapGet(graph.modules, path).children) ELSE {}

RECURSIVE Descendants(_)
Descendants(path) ==
  ChildrenOf(path) \cup UNION {Descendants(child) : child \in ChildrenOf(path)}

\* countVisible under the current expansion set
SizeOf(path) == countVisible(graph, expandedModules, path)

RECURSIVE SumSizes(_)
\* the sum of countVisible over a set of paths
SumSizes(paths) ==
  IF paths = {} THEN 0
  ELSE LET path == CHOOSE one \in paths : TRUE
       IN SizeOf(path) + SumSizes(paths \ {path})

\* C6: a module of the module map has a position if and only if every
\* proper ancestor of it is in the expansion set, whether or not the module
\* itself is in the expansion set
PositionedIffAncestorsExpanded ==
  \A path \in ModulePaths :
    MapHas(positions, path) <=> ProperAncestors(path) \subseteq expandedModules

\* a.b is in the expansion set and has no position because a is collapsed,
\* while a has a position without being in the expansion set
ExpandedButUnpositioned ==
  /\ PathAB \in expandedModules
  /\ PathA \notin expandedModules
  /\ ~MapHas(positions, PathAB)
  /\ ~MapHas(positions, PathABD)
  /\ MapHas(positions, PathA)

\* C7: countVisible of a path is 1 when the path is not in the expansion
\* set and otherwise 1 plus the sum of countVisible over its children; when
\* every module is expanded it is 1 plus the number of descendants of the
\* path; an expanded path without children has size 1
CountVisibleRecurrence ==
  /\ \A path \in FocusPaths(graph) \cup {PathGhost} :
       /\ path \notin expandedModules => SizeOf(path) = 1
       /\ path \in expandedModules => SizeOf(path) = 1 + SumSizes(ChildrenOf(path))
       /\ path \in expandedModules /\ ChildrenOf(path) = {} => SizeOf(path) = 1
  /\ ModulePaths \subseteq expandedModules =>
       \A path \in FocusPaths(graph) : SizeOf(path) = 1 + Cardinality(Descendants(path))

\* every module of the tree snapshot is expanded: a has size 5, a.b size 2
\* and the expanded leaf a.b.d size 1
FullyExpandedSizes ==
  /\ ModulePaths \subseteq expandedModules
  /\ SizeOf(PathA) = 5
  /\ SizeOf(PathAB) = 2
  /\ PathABD \in expandedModules
  /\ SizeOf(PathABD) = 1

\* the layout roots: the modules without a parent in the module map
RootModules == {path \in ModulePaths : IsRootModule(path)}

\* the siblings placed before a path: those that sort before it
Before(siblings, path) == {other \in siblings : StrLess(other, path)}

\* the siblings lie, in ascending order, on contiguous spans as long as their
\* sizes, one depth below the parent, the combined span centered on the
\* center of the parent (centers and span ends in half units)
SpansCentered(parent, siblings) ==
  \A child \in siblings :
    /\ MapHas(positions, child)
    /\ MapGet(positions, child).x = MapGet(positions, parent).x + 1
    /\ MapGet(positions, child).y2 - SizeOf(child)
         = MapGet(positions, parent).y2 - SumSizes(siblings)
             + 2 * SumSizes(Before(siblings, child))

\* C8: the children of an expanded positioned module are placed in sorted
\* order on contiguous spans, each as long as the countVisible of the child
\* and centered on the center of the child, and the center of the parent is
\* the midpoint of the combined span; the root modules are placed the same
\* way around the synthetic root at depth 0, center 0
ChildrenOnContiguousSpans ==
  /\ MapGet(positions, ROOT_KEY) = [x |-> 0, y2 |-> 0]
  /\ SpansCentered(ROOT_KEY, RootModules)
  /\ \A i \in 1..Len(positions) :
       positions[i][1] \in expandedModules =>
         SpansCentered(positions[i][1], ChildrenOf(positions[i][1]))

\* a and a.b are expanded, a.c is collapsed: a.b spans [-3/2, 1/2] with the
\* center -1/2, a.c spans [1/2, 3/2] with the center 1, a is centered on 0,
\* and a.b.d is centered on the center of a.b
UnequalSpans ==
  /\ PathA \in expandedModules
  /\ PathAB \in expandedModules
  /\ PathAC \notin expandedModules
  /\ MapGet(positions, PathA) = [x |-> 1, y2 |-> 0]
  /\ MapGet(positions, PathAB) = [x |-> 2, y2 |-> -1]
  /\ MapGet(positions, PathAC) = [x |-> 2, y2 |-> 2]
  /\ MapGet(positions, PathABD) = [x |-> 3, y2 |-> -1]

\* C9: two different positioned modules of the same depth have centers at
\* least 1 unit (2 half units) apart, whatever their parents
NoOverlap ==
  \A i \in 1..Len(positions) : \A j \in 1..Len(positions) :
    i # j /\ positions[i][2].x = positions[j][2].x =>
      \/ positions[i][2].y2 - positions[j][2].y2 >= 2
      \/ positions[j][2].y2 - positions[i][2].y2 >= 2

\* a.b.d and a.c.f, children of different parents, are positioned at the
\* same depth
CousinsAtSameDepth ==
  /\ MapHas(positions, PathABD)
  /\ MapHas(positions, PathACF)
  /\ MapGet(positions, PathABD).x = MapGet(positions, PathACF).x
  /\ parentOf(graph, PathABD) # parentOf(graph, PathACF)

----------------------------------------------------------------------------
(* Determinism of the rebuild *)

\* what a rebuild produces: the positions, the tree edges, the aggregated
\* edges, their sorted label lists, and the tubes drawn with their labels
\* and bend signs, each in its order
Output(st) == <<st.positions, st.edges, st.visibleDeps, st.edgeObjects, st.edgeMeshes>>

\* C10: the output of the rebuild is a function of the snapshot and the
\* current expansion set alone: it is the output a fresh session computes
\* for that expansion set, whatever actions led to the set, and rebuilding
\* once more without changing the set reproduces it
RebuildDeterministic ==
  /\ Output(State) = Output(FreshRebuild(graph, expandedModules))
  /\ Output(updateGraph(State)) = Output(State)

\* a session with a history entry, a selection and pulsing sprites shows
\* a labelled dependency tube of each bend sign
SessionWithBentTubes ==
  /\ Len(history) > 0
  /\ selectedId # Null
  /\ pulseTargets # {}
  /\ expandedModules # {}
  /\ \E i \in 1..Len(edgeMeshes) : \E j \in 1..Len(edgeMeshes) :
       /\ edgeMeshes[i].kind = "dep"
       /\ edgeMeshes[j].kind = "dep"
       /\ edgeMeshes[i].bias = 1
       /\ edgeMeshes[j].bias = -1
       /\ Len(edgeMeshes[i].objects) > 1

----------------------------------------------------------------------------
(* Properties of the view history *)

\* the snapshot of the view of st: its selection, its expansion set and its
\* camera, in an object of its own
Captured(st) ==
  [selectedId |-> st.selectedId, expandedModules |-> st.expandedModules,
   shared |-> FALSE, camera |-> st.camera]

\* what the contract of push says of the state st
PushOutcome(st) ==
  IF st.historyLocked
    THEN pushHistory(st).history = st.history
  ELSE IF st.history # <<>> /\ st.history[Len(st.history)].selectedId = st.selectedId
    THEN pushHistory(st).history = st.history
    ELSE pushHistory(st).history = Append(st.history, Captured(st))

\* C11: pushHistory leaves the stack unchanged when the lock flag is set and
\* when the selection equals the selection of the top entry, whatever the
\* expansion set and the camera of that entry are; otherwise it appends
\* exactly one snapshot of the view.  Pushing twice in a row yields the
\* stack of pushing once, and no two adjacent entries of the stack have the
\* same selected id.
PushHistoryContract ==
  /\ \A locked \in BOOLEAN : PushOutcome([State EXCEPT !.historyLocked = locked])
  /\ pushHistory(pushHistory(State)).history = pushHistory(State).history
  /\ \A i \in 1..(Len(history) - 1) : history[i].selectedId # history[i + 1].selectedId

\* two entries are stacked, the selection is the selection of the top entry
\* and the expansion set has changed since that entry was pushed: a push
\* records nothing although the view differs
RepeatedClickNotRecorded ==
  /\ Len(history) = 2
  /\ history[2].selectedId = selectedId
  /\ history[2].expandedModules # expandedModules

\* C12: popHistory on a non-empty stack returns the last entry and leaves
\* the entries below it unchanged and in order, so that a pop after a push
\* returns the snapshot just pushed and restores the stack; on an empty
\* stack it returns null and Back changes nothing.
PopIsLastInFirstOut ==
  /\ history = <<>> => popped(State) = <<>> /\ navBack(State) = State
  /\ history # <<>> =>
       /\ popped(State) = << history[Len(history)] >>
       /\ popHistory(State).history = [i \in 1..(Len(history) - 1) |-> history[i]]
  /\ pushHistory(State).history # history =>
       /\ popped(pushHistory(State)) = << Captured(State) >>
       /\ popHistory(pushHistory(State)).history = history

\* the stack holds two snapshots of different expansion sets
StackOfTwoSnapshots ==
  /\ Len(history) = 2
  /\ history[1].expandedModules # history[2].expandedModules

\* C13: Back replaces the expansion set by the set of the popped snapshot,
\* lays out that set, selects the selection of the snapshot, adds no history
\* entry, and leaves the lock flag false, in every state.
RestoreAppliesSnapshot ==
  /\ ~historyLocked
  /\ history # <<>> =>
       LET top == history[Len(history)]
           after == navBack(State)
       IN /\ after.expandedModules = top.expandedModules
          /\ after.positions = layoutTree(graph, top.expandedModules).positions
          /\ after.selectedId = top.selectedId
          /\ after.history = SubSeq(history, 1, Len(history) - 1)
          /\ ~after.historyLocked

\* C14: no step changes an entry that stays on the stack: toggle, focus,
\* expand-all and collapse-all change the live expansion set only, also
\* after a snapshot has been restored.
SnapshotsNotShared ==
  [][\A i \in 1..Min(Len(history), Len(history')) : history'[i] = history[i]]_vars

\* the live expansion set has changed since the bottom entry of the stack
\* was pushed, and the entry still holds the set it was pushed with
EntryOutlivesMutation ==
  /\ history # <<>>
  /\ history[1].expandedModules = {}
  /\ expandedModules = {PathPkg, PathPkgA, PathPkgB}

----------------------------------------------------------------------------
(* Properties of the load-time pre-pass *)

\* the raw edges of kind depends or invokes whose two endpoints resolve to
\* two different modules of the module map
RelevantEdges ==
  {i \in 1..Len(graph.edges) :
     /\ graph.edges[i].kind \in {"depends", "invokes"}
     /\ MapHas(graph.modules, moduleForNodeId(graph, graph.edges[i].to))
     /\ MapHas(graph.modules, moduleForNodeId(graph, graph.edges[i].from))
     /\ moduleForNodeId(graph, graph.edges[i].to)
          # moduleForNodeId(graph, graph.edges[i].from)}

\* the (consumer, provider) pairs the raw edges call for
ExpectedPairs ==
  {<<moduleForNodeId(graph, graph.edges[i].to), moduleForNodeId(graph, graph.edges[i].from)>> :
     i \in RelevantEdges}

\* the (consumer, provider) pairs of the adjacency moduleDeps
AdjacencyPairs ==
  UNION {{<<moduleDeps[i][1], moduleDeps[i][2][j]>> : j \in 1..Len(moduleDeps[i][2])} :
           i \in 1..Len(moduleDeps)}

\* C15: the pre-pass records the pair (consumer, provider) in moduleDeps and
\* in moduleDepObjects if and only if a raw edge of kind depends or invokes
\* has its to endpoint resolving to consumer, its from endpoint resolving to
\* provider, both are modules of the module map and they differ; other
\* kinds, same-module edges and unresolved endpoints record nothing
PrePassRecordsExactly ==
  /\ AdjacencyPairs = ExpectedPairs
  /\ PrePassPairs = ExpectedPairs

\* the snapshot holds an edge of each sort the pre-pass discards beside
\* edges it records: another kind between two modules, a depends edge
\* inside one module, and a depends edge to a constructor of no known module
PrePassDiscards ==
  /\ RelevantEdges # {}
  /\ \E i \in 1..Len(graph.edges) :
       /\ graph.edges[i].kind = "provides"
       /\ moduleForNodeId(graph, graph.edges[i].to)
            # moduleForNodeId(graph, graph.edges[i].from)
  /\ \E i \in 1..Len(graph.edges) :
       /\ graph.edges[i].kind = "depends"
       /\ moduleForNodeId(graph, graph.edges[i].to)
            = moduleForNodeId(graph, graph.edges[i].from)
  /\ \E i \in 1..Len(graph.edges) :
       /\ graph.edges[i].kind = "depends"
       /\ ~MapHas(graph.modules, moduleForNodeId(graph, graph.edges[i].to))
  /\ Cardinality(ExpectedPairs) < Cardinality(RelevantEdges)
  /\ expandedModules # {}

----------------------------------------------------------------------------
(* Malformed snapshots *)

\* C16: no user action throws, whatever the snapshot lacks, and the lock
\* flag is never left set: a double click on a visible sprite, a click on a
\* list row, a focus on a path of the snapshot or on an unknown path,
\* expand-all, collapse-all and Back all return normally.
PipelineTotal ==
  /\ ~historyLocked
  /\ \A id \in DOMAIN nodes : nodes[id].visible => ~dblclick(State, id).thrown
  /\ \A i \in 1..Len(listRows) : ~rowClick(State, listRows[i]).thrown
  /\ \A path \in FocusPaths(graph) \cup {PathGhost} : ~focusModulePath(State, path).thrown
  /\ ~expandAll(State).thrown
  /\ ~collapseAll(State).thrown
  /\ ~navBack(State).thrown

\* C17: a path listed among the children of a module but absent from the
\* module map has no entry in positions, ends no tree edge, and adds nothing
\* to the subtree size of its parent.
DanglingChildSkipped ==
  \A i \in 1..Len(graph.modules) :
    LET parent == graph.modules[i][1]
        children == Range(graph.modules[i][2].children)
        known == {c \in children : MapHas(graph.modules, c)}
    IN /\ \A c \in children \ known :
            /\ ~MapHas(positions, c)
            /\ \A e \in 1..Len(edges) : edges[e][2] # c
       /\ parent \in expandedModules =>
            countVisible(graph, expandedModules, parent)
              = 1 + SumSizes(known)

----------------------------------------------------------------------------
(* The end-to-end scenario *)

\* pkg.a and pkg.b are shown as themselves, and the aggregated edges are the
\* one edge pkg.b -> pkg.a labelled "Service (name=X)"
OneServiceEdge ==
  /\ nodeVisible(nodes, PathPkgA)
  /\ nodeVisible(nodes, PathPkgB)
  /\ visibleDeps = << <<PathPkgB, <<PathPkgA>> >> >>
  /\ edgeObjects = << <<PathPkgB \o Arrow \o PathPkgA,
                         << TypeService \o NameOpen \o NameX \o NameClose >> >> >>

\* C18 as stated: on the pkg snapshot, in every view state in which pkg.a
\* and pkg.b are collapsed, pkg.a and pkg.b are visible as themselves and
\* the aggregated edge set is the one edge pkg.b -> pkg.a labelled
\* "Service (name=X)".
ServiceEdgeWhileLeavesCollapsed ==
  graph = GraphPkg /\ PathPkgA \notin expandedModules /\ PathPkgB \notin expandedModules
    => OneServiceEdge

\* C18 amended: on the pkg snapshot, in every view state in which pkg is
\* expanded and pkg.a and pkg.b are collapsed, pkg.a and pkg.b are visible
\* as themselves and the aggregated edge set is the one edge pkg.b -> pkg.a
\* labelled "Service (name=X)".
ServiceEdgeWhilePkgExpanded ==
  graph = GraphPkg /\ PathPkg \in expandedModules
    /\ PathPkgA \notin expandedModules /\ PathPkgB \notin expandedModules
    => OneServiceEdge

\* pkg alone is expanded and the edge between its two leaves is drawn
PkgExpandedAlone ==
  /\ graph = GraphPkg
  /\ expandedModules = {PathPkg}
  /\ Len(edgeMeshes) > 2
  /\ OneServiceEdge

----------------------------------------------------------------------------
(* Properties of the object index and the search *)

\* the known modules owning a constructor or decorator that provides the
\* i-th object of the snapshot
ProvidersOf(i) ==
  {m \in ModulePaths :
     \E k \in 1..Len(graph.objects[i][2].providedBy) :
       LET id == graph.objects[i][2].providedBy[k]
       IN \/ MapHas(graph.constructors, id) /\ MapGet(graph.constructors, id).modulePath = m
          \/ MapHas(graph.decorators, id) /\ MapGet(graph.decorators, id).modulePath = m}

\* the objects with a resolvable provider module
Indexed == {i \in 1..Len(graph.objects) : ProvidersOf(i) # {}}

\* the objects that are the same logical object as the i-th
SameSignature(i) ==
  {j \in Indexed :
     /\ graph.objects[j][2].type = graph.objects[i][2].type
     /\ graph.objects[j][2].name = graph.objects[i][2].name
     /\ graph.objects[j][2].group = graph.objects[i][2].group}

\* C19: the search entries are one entry per pair of an object and one of
\* its provider modules, the provider modules being the distinct known
\* modules that own a constructor or decorator providing the object; an
\* object without such a module has no search entry and is listed under no
\* signature; the signature map lists every other object once, under a key
\* it shares with exactly the objects of the same type, name and group
ObjectIndexExact ==
  /\ Len(searchEntries)
       = SumSeq([i \in 1..Len(graph.objects) |-> Cardinality(ProvidersOf(i))])
  /\ \A k \in 1..Len(searchEntries) :
       \E i \in Indexed :
         /\ searchEntries[k].modulePath \in ProvidersOf(i)
         /\ searchEntries[k].label = formatObject(graph.objects[i][2])
         /\ MapHas(objectRefIndex, searchEntries[k].signature)
         /\ graph.objects[i][1]
              \in {e.id : e \in Range(MapGet(objectRefIndex, searchEntries[k].signature))}
  /\ \A i \in Indexed : \A m \in ProvidersOf(i) :
       Cardinality({k \in 1..Len(searchEntries) :
                      /\ searchEntries[k].modulePath = m
                      /\ searchEntries[k].label = formatObject(graph.objects[i][2])})
         = Cardinality({j \in SameSignature(i) : m \in ProvidersOf(j)})
  /\ \A r \in 1..Len(objectRefIndex) :
       \E i \in Indexed :
         /\ Len(objectRefIndex[r][2]) = Cardinality(SameSignature(i))
         /\ {e.id : e \in Range(objectRefIndex[r][2])}
              = {graph.objects[j][1] : j \in SameSignature(i)}
  /\ Cardinality({objectRefIndex[r][1] : r \in 1..Len(objectRefIndex)})
       = Len(objectRefIndex)
  /\ UNION {{e.id : e \in Range(objectRefIndex[r][2])} : r \in 1..Len(objectRefIndex)}
       = {graph.objects[i][1] : i \in Indexed}

\* the snapshot holds two objects of one signature, one of them with two
\* provider modules, an object two constructors of one module provide, and
\* two objects left out of the index; a search has been made
IndexOfWholePool ==
  /\ Len(graph.objects) = 5
  /\ Cardinality(Indexed) = 3
  /\ \E i \in Indexed : Cardinality(ProvidersOf(i)) = 2 /\ Cardinality(SameSignature(i)) = 2
  /\ \E i \in Indexed :
       Len(graph.objects[i][2].providedBy) = 2 /\ Cardinality(ProvidersOf(i)) = 1
  /\ Len(searchEntries) = 4
  /\ Len(objectRefIndex) = 2
  /\ objectQuery # EmptyStr

\* the query as the search compares it: without the white space around it,
\* capitals replaced by their lower-case letters
Needle ==
  LET inner == {i \in 1..Len(objectQuery) : objectQuery[i] # 32}
      first == CHOOSE i \in inner : \A j \in inner : i <= j
      last == CHOOSE i \in inner : \A j \in inner : i >= j
  IN IF inner = {} THEN EmptyStr
     ELSE [k \in 1..(last - first + 1) |->
             IF objectQuery[first + k - 1] \in 65..90
               THEN objectQuery[first + k - 1] + 32
               ELSE objectQuery[first + k - 1]]

\* the positions in the index of the entries whose key contains the query
Hits ==
  {i \in 1..Len(searchEntries) :
     \E at \in 0..(Len(searchEntries[i].searchKey) - Len(Needle)) :
       \A k \in 1..Len(Needle) : searchEntries[i].searchKey[at + k] = Needle[k]}

\* C20: the rows shown are the first 50 of the entries whose lower-case key
\* contains the trimmed, lower-cased query, in index order; beyond 50 matches
\* the note reports the number of all matches; an empty or blank query shows
\* the "type to search" message and a query without a match the "no matches"
\* message
SearchResultsExact ==
  /\ \A i \in 1..Len(searchEntries) :
       searchEntries[i].searchKey = toLowerCase(searchEntries[i].label)
  /\ Needle = EmptyStr =>
       objectResults = [message |-> "Type to search for objects.", rows |-> <<>>, more |-> <<>>]
  /\ Needle # EmptyStr /\ Hits = {} =>
       objectResults = [message |-> "No matches.", rows |-> <<>>, more |-> <<>>]
  /\ Needle # EmptyStr /\ Hits # {} =>
       /\ objectResults.message = ""
       /\ Len(objectResults.rows) = Min(50, Cardinality(Hits))
       /\ \A k \in 1..Len(objectResults.rows) :
            LET i == CHOOSE h \in Hits : Cardinality({j \in Hits : j < h}) = k - 1
            IN /\ objectResults.rows[k].label = searchEntries[i].label
               /\ objectResults.rows[k].modulePath = searchEntries[i].modulePath
       /\ objectResults.more
            = (IF Cardinality(Hits) > 50 THEN << Cardinality(Hits) >> ELSE <<>>)

\* a query typed in capitals matches 51 entries: 50 rows are shown and the
\* note reports 51
FirstFiftyOfMore ==
  /\ objectQuery = <<84>>
  /\ Len(searchEntries) = 51
  /\ Len(objectResults.rows) = 50
  /\ objectResults.more = <<51>>

\* ---------------------------------------------------------------------
\* Order of the search entries

\* what a row of the search shows of an entry, apart from the private badge
EntryKeys(entries) ==
  [k \in 1..Len(entries) |-> <<entries[k].label, entries[k].modulePath, entries[k].signature>>]

PrivateAsInferred ==
  LET marked(provider) == \/ "exported" \in DOMAIN provider /\ provider.exported
                          \/ "Exported" \in DOMAIN provider /\ provider.Exported
      providerMarked(id) ==
        \/ MapHas(graph.constructors, id) /\ marked(MapGet(graph.constructors, id))
        \/ MapHas(graph.decorators, id) /\ marked(MapGet(graph.decorators, id))
      expected(obj) ==
        IF "exported" \in DOMAIN obj THEN ~obj.exported
        ELSE IF "Exported" \in DOMAIN obj THEN ~obj.Exported
        ELSE /\ \E k \in 1..Len(obj.providedBy) : MapHas(graph.constructors, obj.providedBy[k])
             /\ \A k \in 1..Len(obj.providedBy) : ~providerMarked(obj.providedBy[k])
  IN /\ \A i \in 1..Len(graph.objects) :
          isPrivateObject(graph, graph.objects[i][2]) = expected(graph.objects[i][2])
     /\ \A r \in 1..Len(objectRefIndex) : \A k \in 1..Len(objectRefIndex[r][2]) :
          objectRefIndex[r][2][k].isPrivate
            = expected(MapGet(graph.objects, objectRefIndex[r][2][k].id))

\* ---------------------------------------------------------------------
\* Tree edges of the layout

\* C23: the tree edges are the pairs (synthetic root, r) for the root
\* modules r and (p, c) for the children c of the positioned modules p of
\* the expansion set, and no others; every positioned module other than the
\* synthetic root is the child of exactly one tree edge and lies one depth
\* below that edge's parent, the synthetic root lying at depth 0
TreeEdgesExact ==
  LET positioned == Range(MapKeys(positions))
      childEdges(p) == {<<p, c>> : c \in ChildrenOf(p)}
      into(path) == {i \in 1..Len(edges) : edges[i][2] = path}
  IN /\ Range(edges) = {<<ROOT_KEY, r>> : r \in RootModules}
                         \cup UNION {childEdges(p) : p \in positioned \cap expandedModules}
     /\ MapGet(positions, ROOT_KEY).x = 0
     /\ \A path \in positioned \ {ROOT_KEY} :
          /\ Cardinality(into(path)) = 1
          /\ \A i \in into(path) :
               /\ MapHas(positions, edges[i][1])
               /\ MapGet(positions, path).x = MapGet(positions, edges[i][1]).x + 1
     /\ \A r \in RootModules : MapGet(positions, r).x = 1

\* a and a.c are expanded and a.b is not: four tree edges, the deepest
\* reaching a.c.f at depth 3, and none below a.b
TreeEdgesThreeDeep ==
  /\ graph = GraphTree
  /\ expandedModules = {PathA, PathAC}
  /\ Len(edges) = 4
  /\ <<PathAC, PathACF>> \in Range(edges)
  /\ MapGet(positions, PathACF).x = 3
  /\ <<PathAB, PathABD>> \notin Range(edges)

\* ---------------------------------------------------------------------
\* Animations

\* C24: a step of the render loop (the clock advances) or of a pulse timer
\* (a sprite stops pulsing) leaves the snapshot, the expansion set, the
\* selection, the history, the nodes with their visibility flags, the
\* positions, the tree edges, the aggregated dependency edges and their
\* labels, the module list and the details panel unchanged, in every
\* interleaving with the user actions
AnimationsOnlyDecorate ==
  [][(now' # now \/ (pulseTargets' \subseteq pulseTargets /\ pulseTargets' # pulseTargets))
       => UNCHANGED <<graph, moduleDeps, moduleDepObjects, nodes, expandedModules,
                      selectedId, history, historyLocked, positions, edges, edgeMeshes,
                      visibleDeps, edgeObjects, visibleCache, listRows, detailsBody,
                      objectRefIndex, searchEntries>>]_vars

\* a frame was drawn in the middle of the tweens of a double click, and the
\* pulse of the selected sprite has ended
FrameDrawnMidTween ==
  /\ now = 160
  /\ zoomTween # <<>>
  /\ panTween # <<>>
  /\ camera.zoom # DEFAULT_ZOOM
  /\ camera.zoom # zoomTween[1].to
  /\ expandedModules = {PathP}
  /\ selectedId = NodeId(PathPQ)
  /\ history # <<>>
  /\ pulseTargets = {}

\* C25: where the history holds a snapshot, pressing Back and then drawing
\* frames until every tween has ended (the longest lasts 320 ms) leaves the
\* camera at the x, y and zoom captured in the popped snapshot
BackRestoresCamera ==
  (animating /\ history # <<>>) =>
    LET restored == navBack(State)
        settled == animate([restored EXCEPT !.now = @ + 320])
    IN /\ settled.zoomTween = <<>> /\ settled.panTween = <<>>
       /\ settled.camera = history[Len(history)].camera

\* ---------------------------------------------------------------------
\* Failed fetch

\* C26: in a session whose fetch failed no build step has run: there are no
\* module dependencies, nodes, index entries, list rows or search results,
\* no module has a position and the render loop does not run, so the camera
\* stays where it was; the details panel holds the failure message until a
\* click on the viewport replaces it by the hint; no step assigns a snapshot
FetchFailureTerminal ==
  /\ [](graph = NoGraph =>
          /\ moduleDeps = <<>> /\ moduleDepObjects = <<>>
          /\ nodes = <<>>
          /\ objectRefIndex = <<>> /\ searchEntries = <<>>
          /\ objectResults = [message |-> "", rows |-> <<>>, more |-> <<>>]
          /\ listRows = <<>> /\ visibleDeps = <<>> /\ edges = <<>>
          /\ \A path \in Range(MapKeys(positions)) : path = ROOT_KEY
          /\ expandedModules = {} /\ selectedId = Null /\ history = <<>>
          /\ ~animating /\ now = 0
          /\ camera = [x |-> 0, y |-> 0, zoom |-> DEFAULT_ZOOM]
          /\ detailsBody.text \in {"Failed to load graph",
                                   "Select a module to inspect dependencies."})
  /\ [][graph = NoGraph =>
          /\ graph' = NoGraph
          /\ \/ detailsBody' = detailsBody
             \/ detailsBody'.text = "Select a module to inspect dependencies."]_vars
  /\ [][graph # NoGraph => graph' = graph]_vars

\* after the failure expand-all was clicked, which started a zoom tween that
\* no frame advances, and the failure message is still shown
FailedSessionAfterClicks ==
  /\ graph = NoGraph
  /\ zoomTween # <<>>
  /\ positions # <<>>
  /\ detailsBody.text = "Failed to load graph"

\* ---------------------------------------------------------------------
\* Visibility flags

\* C27: after every user action the sprite of a module is flagged visible
\* exactly when the layout of the current expansion set positions the
\* module, the positions held are those of that layout, and the aggregated
\* edges and their labels are those the aggregation yields from these flags
VisibilityFollowsLayout ==
  LET layout == layoutTree(graph, expandedModules)
      agg == buildVisibleModuleDeps(graph, nodes, moduleDeps, moduleDepObjects)
  IN /\ \A id \in DOMAIN nodes :
          nodes[id].visible <=> MapHas(layout.positions, nodes[id].modulePath)
     /\ positions = layout.positions
     /\ edges = layout.edges
     /\ visibleDeps = agg.deps
     /\ edgeObjects = agg.objects

\* after actions that were recorded, a module of the expansion set is hidden
\* below a collapsed ancestor while dependency edges are shown
ExpandedModuleHidden ==
  /\ history # <<>>
  /\ visibleDeps # <<>>
  /\ \E id \in DOMAIN nodes :
       /\ ~nodes[id].visible
       /\ nodes[id].modulePath \in expandedModules

\* ---------------------------------------------------------------------
\* toggleModule

\* C28: toggleModule(path) adds the path to the expansion set if it is not
\* in it and removes it otherwise, changing the membership of no other path
\* (so the expanded modules below a collapsed one stay in the set), and does
\* nothing for the empty path and the synthetic root; a second call with the
\* same path restores the expansion set, the positions, the tree edges and
\* the aggregated dependency edges with their labels
ToggleChangesOnePath ==
  LET toggled(st, path) == [toggleModule(st, path) EXCEPT !.thrown = FALSE]
  IN /\ toggleModule(State, EmptyStr) = State
     /\ toggleModule(State, ROOT_KEY) = State
     /\ \A path \in FocusPaths(graph) :
          LET once == toggled(State, path)
              twice == toggled(once, path)
          IN /\ once.expandedModules
                  = (IF path \in expandedModules THEN expandedModules \ {path}
                     ELSE expandedModules \cup {path})
             /\ twice.expandedModules = expandedModules
             /\ twice.positions = positions
             /\ twice.edges = edges
             /\ twice.visibleDeps = visibleDeps
             /\ twice.edgeObjects = edgeObjects

\* a has just been collapsed: a.c below it is still in the expansion set, and
\* neither a.c nor a.c.f has a position
CollapsedAboveExpanded ==
  /\ graph = GraphTree
  /\ expandedModules = {PathAC}
  /\ zoomTween # <<>>
  /\ zoomTween[1].to = DEFAULT_ZOOM
  /\ ~MapHas(positions, PathAC)
  /\ ~MapHas(positions, PathACF)

\* ---------------------------------------------------------------------
\* focusModulePath

\* C29: after focusModulePath(p) for a module p of the module map the
\* expansion set holds p, every ancestor of p and every path it held before,
\* p has a position and its sprite is visible, and the selection is the node
\* of p; for a path without a module entry the selection and the set of
\* visible sprites are as before
FocusRevealsModule ==
  LET visibleIn(st) == {id \in DOMAIN st.nodes : st.nodes[id].visible}
  IN /\ \A p \in ModulePaths :
          LET after == focusModulePath(State, p)
          IN /\ {p} \cup ProperAncestors(p) \cup expandedModules \subseteq after.expandedModules
             /\ MapHas(after.positions, p)
             /\ after.nodes[NodeId(p)].visible
             /\ after.selectedId = NodeId(p)
     /\ \A p \in (FocusPaths(graph) \cup {PathGhost}) \ ModulePaths :
          LET after == focusModulePath(State, p)
          IN /\ after.selectedId = selectedId
             /\ visibleIn(after) = visibleIn(State)

\* ---------------------------------------------------------------------
\* expand-all and collapse-all

\* what expand-all and collapse-all leave alone
KeptByBulkAction(st) ==
  <<st.graph, st.selectedId, st.history, st.historyLocked, st.camera, st.panTween,
    st.pulseTargets, st.detailsBody, st.objectQuery, st.objectResults, st.now>>

\* expand-all puts every module into the expansion set and collapse-all
\* empties it; each starts a zoom tween and rebuilds the layout for the new
\* set, and leaves the selection, the history, the camera and the details
\* panel unchanged; a Back pressed next pops the entry that was on top before
\* and ends in the view a Back pressed instead of the bulk action ends in
BulkActionsKeepHistory ==
  LET all == expandAll(State)
      none == collapseAll(State)
      handled(st) == [st EXCEPT !.thrown = FALSE]
      view(st) == <<st.expandedModules, st.selectedId, st.history, st.positions, st.edges,
                    st.nodes, st.visibleDeps, st.camera>>
  IN /\ ModulePaths \subseteq all.expandedModules
     /\ all.expandedModules \ ModulePaths = expandedModules \ ModulePaths
     /\ none.expandedModules = {}
     /\ \A after \in {all, none} :
          /\ KeptByBulkAction(after) = KeptByBulkAction(State)
          /\ after.zoomTween # <<>>
          /\ after.zoomTween[1].from = camera.zoom
          /\ after.positions = layoutTree(graph, after.expandedModules).positions
          /\ after.edges = layoutTree(graph, after.expandedModules).edges
          /\ history # <<>> =>
               /\ navBack(handled(after)).history = SubSeq(history, 1, Len(history) - 1)
               /\ navBack(handled(after)).expandedModules
                    = history[Len(history)].expandedModules
               /\ view(navBack(handled(after))) = view(navBack(State))

\* C30: expand-all and collapse-all change only the expansion set (to the set
\* of all modules, respectively to the empty set), the zoom tween and the
\* rebuilt layout; they push no history entry and leave the selection and the
\* history unchanged, so a following Back restores the view captured before
\* an earlier action
BulkActionsUnrecorded ==
  /\ BulkActionsKeepHistory
  /\ expandAll(State).expandedModules = ModulePaths

\* ---------------------------------------------------------------------
\* the fallback pass of buildVisibleModuleDeps

\* the (consumer, provider) pairs of a map from a consumer to a sequence of
\* providers
DepPairs(byConsumer) ==
  UNION {{<<byConsumer[i][1], provider>> : provider \in Range(byConsumer[i][2])} :
           i \in 1..Len(byConsumer)}

\* moduleDepObjects with the keys of every provider map in place of the map
ProviderKeys(depObjects) ==
  [i \in 1..Len(depObjects) |-> <<depObjects[i][1], MapKeys(depObjects[i][2])>>]

\* C31: moduleDepObjects and moduleDeps hold the same (consumer, provider)
\* pairs; when the pass over moduleDepObjects gives no visible edge, the
\* fallback pass over moduleDeps gives none either, and the visible edges of
\* the scene are those of the pass over moduleDepObjects
FallbackAddsNothing ==
  LET labelled == aggregateConsumers(graph, nodes, moduleDepObjects,
                                     [deps |-> <<>>, objectsByEdge |-> <<>>, cache |-> <<>>],
                                     1)
  IN /\ DepPairs(ProviderKeys(moduleDepObjects)) = DepPairs(moduleDeps)
     /\ Len(labelled.deps) = 0 =>
          Len(fallbackModules(graph, nodes, moduleDeps, labelled, 1).deps) = 0
     /\ visibleDeps = labelled.deps

\* modules depend on one another, and in the layout on screen every
\* dependency joins two modules shown by the same sprite: the pass over
\* moduleDepObjects has given no edge and the fallback pass has run
FallbackRanOverDependencies ==
  /\ DepPairs(moduleDeps) # {}
  /\ Len(visibleDeps) = 0
  /\ expandedModules # {}

====
